---- MODULE Spec2Model ----
(***************************************************************************)
(* ReiStandard active-messaging server: the scheduled_messages table, the  *)
(* send-notifications dispatcher, the instant path (processMessagesByUuid) *)
(* and the schedule / update / cancel requests that write the table.       *)
(* Times are whole seconds counted from the instant the model starts; the   *)
(* source's millisecond amounts are converted by Ms.                       *)
(***************************************************************************)
EXTENDS Integers, Sequences, FiniteSets, TLC

\* ---------------------------------------------------------------- bounds
MaxTicks == 4
MaxFails == 4
MaxRows == 2
MaxRequests == 3
MaxUnits == 3
MaxAdapterCalls == 4
MaxText == 4
BatchRows == 2
MaxQueued == 2
MaxFlushes == 3

Runners == {1, 2}
Ids == {1}

\* ------------------------------------------------------ program constants
MAX_CONCURRENT == 8
PendingLimit == 50
RetentionDays == 7
\* Variant: the instant path is given one retry more.
InstantMaxRetries_OneMore == 2 + 1
InstantMaxRetries == 2
\* A duration the source gives in milliseconds, in seconds.
Ms(x) == x \div 1000
Minute == Ms(60 * 1000)
Day == Ms(24 * 60 * 60 * 1000)
Recurrences == {"none", "daily", "weekly"}
UnitCounts == {1, 2}
ScheduleDelay == Minute
TickSteps == {6 * Minute}

VARIABLES now, rows, nextId, run, inst, ghost, ticks,
          epochMs, blobs, onb, auth, tlog,
          vapid, reply, psm, adp, content, outbox

vars == <<now, rows, nextId, run, inst, ghost, ticks,
          epochMs, blobs, onb, auth, tlog,
          vapid, reply, psm, adp, content, outbox>>

\* The tenant side: the clock of Date.now() in milliseconds, the tenant blob
\* store, the initializeTenant calls in progress, the last answer of
\* resolveTenant, and a log of what the calls have done.
tenantVars == <<epochMs, blobs, onb, auth, tlog>>

\* The message side: the table, the dispatch runs and the instant call.
messageVars == <<now, rows, nextId, run, inst, ghost, ticks>>

\* The server's VAPID configuration, the last answer of the schedule-message
\* handler, the processSingleMessage activations with their pushes, the
\* storage-handle cache with the calls of getOrCreateAdapter, and one
\* content resolution (completion request, text, delivery units).
serviceVars == <<vapid, reply, psm, adp, content, outbox>>


\* ------------------------------------------------------------- storage
\* A row of scheduled_messages; the encrypted payload is kept decrypted.
NewRow(uuid, payload, nextSendAt, t) ==
  [uuid |-> uuid, status |-> "pending", retry_count |-> 0,
   next_send_at |-> nextSendAt, updated_at |-> t, payload |-> payload]

\* UPDATE ... SET <updates>, updated_at = NOW() WHERE id = taskId
updateTaskById(tbl, taskId, updates, t) ==
  IF taskId \in DOMAIN tbl
    THEN [tbl EXCEPT ![taskId] =
            [f \in DOMAIN tbl[taskId] |->
               IF f = "updated_at" THEN t
               ELSE IF f \in DOMAIN updates THEN updates[f]
               ELSE tbl[taskId][f]]]
    ELSE tbl

\* Variant: the DELETE matches no row.
deleteTaskById_NoRow(tbl, taskId) == tbl

\* DELETE FROM scheduled_messages WHERE id = taskId
deleteTaskById(tbl, taskId) ==
  [i \in DOMAIN tbl \ {taskId} |-> tbl[i]]

\* UPDATE ... SET encrypted_payload, <extra> WHERE uuid = .. AND status = 'pending'
updateTaskByUuid(tbl, uuid, payload, extraFields, t) ==
  [i \in DOMAIN tbl |->
     IF tbl[i].uuid = uuid /\ tbl[i].status = "pending"
       THEN [f \in DOMAIN tbl[i] |->
               IF f = "updated_at" THEN t
               ELSE IF f = "payload" THEN payload
               ELSE IF f \in DOMAIN extraFields THEN extraFields[f]
               ELSE tbl[i][f]]
       ELSE tbl[i]]

\* DELETE FROM scheduled_messages WHERE uuid = .. AND user_id = ..
deleteTaskByUuid(tbl, uuid) ==
  [i \in {j \in DOMAIN tbl : tbl[j].uuid # uuid} |-> tbl[i]]

\* SELECT ... WHERE uuid = .. AND status = 'pending' LIMIT 1
getTaskByUuid(tbl, uuid) ==
  {i \in DOMAIN tbl : tbl[i].uuid = uuid /\ tbl[i].status = "pending"}

\* DELETE ... WHERE status IN ('sent','failed') AND updated_at < NOW() - days
\* Variant: the janitor deletes every old row, whatever its status.
cleanupOldTasks_AnyStatus(tbl, days, t) ==
  [i \in {j \in DOMAIN tbl : ~(tbl[j].updated_at < t - days * Day)} |-> tbl[i]]

cleanupOldTasks(tbl, days, t) ==
  [i \in {j \in DOMAIN tbl :
            ~(tbl[j].status \in {"sent", "failed"}
              /\ tbl[j].updated_at < t - days * Day)} |-> tbl[i]]

\* The rows the query of getPendingTasks selects.
DueIds(tbl, t) ==
  {i \in DOMAIN tbl : tbl[i].status = "pending" /\ tbl[i].next_send_at <= t}

\* The row as the SELECT list returns it.
TaskOf(tbl, i) ==
  [id |-> i, retry_count |-> tbl[i].retry_count,
   next_send_at |-> tbl[i].next_send_at, payload |-> tbl[i].payload]

Min(a, b) == IF a < b THEN a ELSE b

\* The orders ORDER BY next_send_at ASC allows for the first n of the rows
\* ids (rows of equal next_send_at in any order).
RECURSIVE Ordered(_, _, _)
Ordered(tbl, ids, n) ==
  IF n = 0 \/ ids = {}
    THEN {<<>>}
    ELSE UNION {{<<m>> \o s : s \in Ordered(tbl, ids \ {m}, n - 1)} :
                  m \in {i \in ids : \A k \in ids :
                           tbl[i].next_send_at <= tbl[k].next_send_at}}

\* Variant: the query has no LIMIT.
getPendingTasks_NoLimit(tbl, limit, t) ==
  Ordered(tbl, DueIds(tbl, t), Cardinality(DueIds(tbl, t)))

\* ORDER BY next_send_at ASC (ties in any order) LIMIT limit
getPendingTasks(tbl, limit, t) ==
  Ordered(tbl, DueIds(tbl, t), Min(limit, Cardinality(DueIds(tbl, t))))


\* ------------------------------------------------------------ bookkeeping
\* History kept per row id for stating the properties; the program has no
\* such fields.  fails: consecutive failed dispatch attempts; fault: a
\* storage call for the row has thrown; psf: the current occurrence was
\* delivered and its success-path write threw; outcome: how the row ended
\* ("open" while it has not).
NoHistory == [fails |-> 0, fault |-> FALSE, psf |-> FALSE, outcome |-> "open"]

Close(old, new) == IF old = "open" THEN new ELSE old

EmptyResults ==
  [totalTasks |-> 0, successCount |-> 0, failedCount |-> 0,
   deletedOnceOffTasks |-> 0, updatedRecurringTasks |-> 0,
   failedTasks |-> <<>>]

IdleRun == [pc |-> "idle", queue |-> <<>>, processing |-> {},
            results |-> EmptyResults]

\* Of the fetched row the instant path reads the id and the payload only.
InstantTaskOf(tbl, i) == [id |-> i, payload |-> tbl[i].payload]

NoTask == [id |-> 0,
           payload |-> [messageType |-> "instant", recurrenceType |-> "none",
                        units |-> 1]]

\* attempts counts the calls of processSingleMessage (bookkeeping).
IdleInst == [pc |-> "idle", uuid |-> 0, retryCount |-> 0, task |-> NoTask,
             unit |-> 1, sendCount |-> 0, delivered |-> 0, code |-> "NONE",
             attempts |-> 0]

\* ---------------------------------------------------------------- services
Workers == {1, 2}
Pairs == {1, 2}

\* ctx.vapid with email, publicKey and privateKey all set.
VapidConfigured == [email |-> TRUE, publicKey |-> TRUE, privateKey |-> TRUE]

\* No request has been answered yet.
NoAnswer == [seq |-> 0, status |-> 0, code |-> "NONE", messageType |-> "",
             uuid |-> 0]

\* processSingleMessage is not running.
IdlePsm == [pc |-> "idle", messages |-> <<>>, i |-> 0, inflight |-> {},
            pushed |-> <<>>]

\* getOrCreateAdapter is not running.
NoAdapterCall == [pc |-> "idle", pair |-> 0, got |-> 0]

\* const adapterCache = new Map(): cache maps a {driver, connectionString}
\* pair to its adapter (0: no entry). handles counts the adapters the
\* factory has made, an adapter being named by its number; started counts
\* the calls, and created keeps the adapters made for each pair
\* (bookkeeping).
EmptyCache == [cache |-> [k \in Pairs |-> 0], handles |-> 0, started |-> 0,
               created |-> [k \in Pairs |-> {}],
               calls |-> [c \in Workers |-> NoAdapterCall]]

\* The content of a task is not being resolved. messageType, maxTokens
\* (0: null) and source are the decrypted payload's fields, source being
\* userMessage or, for an AI-backed task, what the completion endpoint
\* answers; body is the JSON body of the completion request (no request
\* yet), text is messageContent, messages the delivery units.
NoBody == [f \in {} |-> 0]
NoContent == [pc |-> "idle", messageType |-> "fixed", maxTokens |-> 0,
              source |-> <<>>, body |-> NoBody, text |-> <<>>,
              messages |-> <<>>]

\* The service worker's request outbox. store is the IndexedDB object
\* store 'request-outbox' (key: the auto-incremented id), nextKey the next
\* key, clock the worker's Date.now(); flush holds the running calls of
\* flushQueuedRequests: the list they read, their place in it and the last
\* answer of the server. started counts the flushes; fetches and settled
\* (bookkeeping) count the fetch calls made for a request and keep the
\* requests the server has answered with 2xx or 4xx.
Flushers == {1, 2}
NoFlush == [pc |-> "idle", list |-> <<>>, k |-> 0, answer |-> "none"]
EmptyOutbox == [store |-> [i \in {} |-> 0], nextKey |-> 1, clock |-> 0,
                flush |-> [f \in Flushers |-> NoFlush], started |-> 0,
                fetches |-> [i \in {} |-> 0], settled |-> {}]

NoServices ==
  /\ vapid = VapidConfigured
  /\ reply = NoAnswer
  /\ psm = [w \in Workers |-> IdlePsm]
  /\ adp = EmptyCache
  /\ content = NoContent
  /\ outbox = EmptyOutbox

\* ----------------------------------------------------------------- tenants
MaxSeconds == 3
MaxOnboardings == 3

TenantIds == {1, 2}
Callers == {1, 2}
TokenTypes == {"tenant", "cron"}
Expiries == {0, 1, 2}
EpochStart == 5 * 1000
ClockSteps == {500}

\* Math.floor(Date.now() / 1000)
nowEpochSeconds(ms) == ms \div 1000

\* Number(params.expiresInSeconds || 60 * 60 * 24 * 30)
ExpiresIn(expiresInSeconds) ==
  IF expiresInSeconds = 0 THEN 60 * 60 * 24 * 30 ELSE expiresInSeconds

\* createTenantToken: the payload, signed with the token signing key.
createTenantToken(tenantId, type, expiresInSeconds, ms) ==
  [shape |-> "jwt", sig |-> "signed", v |-> 1, tid |-> tenantId,
   typ |-> type, iat |-> nowEpochSeconds(ms),
   exp |-> nowEpochSeconds(ms) + ExpiresIn(expiresInSeconds)]

\* No Authorization header and no token in the URL.
NoToken == [shape |-> "none", sig |-> "none", v |-> 0, tid |-> 0,
            typ |-> "", iat |-> 0, exp |-> 0]

\* A string that is not three dot-separated parts.
MalformedToken == [NoToken EXCEPT !.shape = "text"]

\* Variant: a token is rejected only after its expiry second (exp < now).
verifyTenantToken_LateExpiry(token, expectedTypes, ms) ==
  IF token.shape = "none" THEN [ok |-> FALSE, check |-> "missing"]
  ELSE IF token.shape # "jwt" THEN [ok |-> FALSE, check |-> "malformed"]
  ELSE IF token.sig # "signed" THEN [ok |-> FALSE, check |-> "signature"]
  ELSE IF token.v # 1 THEN [ok |-> FALSE, check |-> "version"]
  ELSE IF token.tid = 0 \/ token.typ = "" \/ token.exp = 0
    THEN [ok |-> FALSE, check |-> "fields"]
  ELSE IF token.exp < nowEpochSeconds(ms)
    THEN [ok |-> FALSE, check |-> "expired"]
  ELSE IF expectedTypes # {} /\ token.typ \notin expectedTypes
    THEN [ok |-> FALSE, check |-> "type"]
  ELSE [ok |-> TRUE, check |-> "none"]

\* Variant: the expected token types are not checked.
verifyTenantToken_AnyType(token, expectedTypes, ms) ==
  IF token.shape = "none" THEN [ok |-> FALSE, check |-> "missing"]
  ELSE IF token.shape # "jwt" THEN [ok |-> FALSE, check |-> "malformed"]
  ELSE IF token.sig # "signed" THEN [ok |-> FALSE, check |-> "signature"]
  ELSE IF token.v # 1 THEN [ok |-> FALSE, check |-> "version"]
  ELSE IF token.tid = 0 \/ token.typ = "" \/ token.exp = 0
    THEN [ok |-> FALSE, check |-> "fields"]
  ELSE IF token.exp <= nowEpochSeconds(ms)
    THEN [ok |-> FALSE, check |-> "expired"]
  ELSE [ok |-> TRUE, check |-> "none"]

\* verifyTenantToken: returns the payload (ok) or throws
\* Error('INVALID_TENANT_AUTH'); check names the test that threw, which the
\* thrown error does not carry.
verifyTenantToken(token, expectedTypes, ms) ==
  IF token.shape = "none" THEN [ok |-> FALSE, check |-> "missing"]
  ELSE IF token.shape # "jwt" THEN [ok |-> FALSE, check |-> "malformed"]
  ELSE IF token.sig # "signed" THEN [ok |-> FALSE, check |-> "signature"]
  ELSE IF token.v # 1 THEN [ok |-> FALSE, check |-> "version"]
  ELSE IF token.tid = 0 \/ token.typ = "" \/ token.exp = 0
    THEN [ok |-> FALSE, check |-> "fields"]
  ELSE IF token.exp <= nowEpochSeconds(ms)
    THEN [ok |-> FALSE, check |-> "expired"]
  ELSE IF expectedTypes # {} /\ token.typ \notin expectedTypes
    THEN [ok |-> FALSE, check |-> "type"]
  ELSE [ok |-> TRUE, check |-> "none"]

\* The blob store: per tenant id no blob, or the tenant's config encrypted
\* under a key-encryption key.
NoBlob == [masterKey |-> 0, kek |-> "none"]

\* decryptConfig succeeds for a blob encrypted under the configured kek.
Readable(blob) == blob.kek = "kek"

\* tenantStore.getTenantConfig: null, the config, or decryptConfig throws.
getTenantConfig(store, tenantId) ==
  IF store[tenantId] = NoBlob THEN "null"
  ELSE IF ~Readable(store[tenantId]) THEN "throws"
  ELSE "config"

\* The 401 answers of resolveTenant; the messages stand for the source's
\* three Chinese texts.
Unauthorized(message) ==
  [kind |-> "error", status |-> 401, code |-> "INVALID_TENANT_AUTH",
   message |-> message, tenantId |-> 0, tokenType |-> "", masterKey |-> 0]

\* resolveTenant rejects: the error of getTenantConfig is not caught.
Thrown(message) ==
  [kind |-> "throws", status |-> 0, code |-> "", message |-> message,
   tenantId |-> 0, tokenType |-> "", masterKey |-> 0]

NoReply == [kind |-> "none", status |-> 0, code |-> "", message |-> "",
            tenantId |-> 0, tokenType |-> "", masterKey |-> 0]

\* resolveTenant(headers, { url, allowCronToken })
resolveTenant(bearerToken, urlToken, allowCronToken, store, ms) ==
  LET tokenFromQuery == IF allowCronToken THEN urlToken ELSE NoToken
      token == IF bearerToken # NoToken THEN bearerToken ELSE tokenFromQuery
      verified == verifyTenantToken(token,
                    IF allowCronToken THEN {"cron"} ELSE {"tenant"}, ms)
  IN IF token = NoToken
       THEN [reply |-> Unauthorized("missing tenant auth"),
             check |-> "missing"]
     ELSE IF ~verified.ok
       THEN [reply |-> Unauthorized("tenant token invalid or expired"),
             check |-> verified.check]
     ELSE IF getTenantConfig(store, token.tid) = "throws"
       THEN [reply |-> Thrown("decryptConfig"), check |-> "undecryptable"]
     ELSE IF getTenantConfig(store, token.tid) = "null"
       THEN [reply |-> Unauthorized("tenant config missing"),
             check |-> "tenant"]
     ELSE [reply |-> [kind |-> "context", status |-> 200, code |-> "",
                      message |-> "", tenantId |-> token.tid,
                      tokenType |-> token.typ,
                      masterKey |-> store[token.tid].masterKey],
           check |-> "none"]

\* The tokens a caller can present at clock ms: none, a malformed string, a
\* token with a signature of another key, and the tokens createTenantToken
\* has signed at some whole second up to now.
Tokens(ms) ==
  {NoToken, MalformedToken}
    \cup {[createTenantToken(1, "tenant", 0, ms) EXCEPT !.sig = "forged"]}
    \cup {createTenantToken(t, typ, e, at * 1000) :
            t \in TenantIds, typ \in TokenTypes, e \in Expiries,
            at \in nowEpochSeconds(EpochStart)..nowEpochSeconds(ms)}

UrlTokens(ms) ==
  {NoToken, createTenantToken(1, "cron", 0, EpochStart),
   createTenantToken(1, "tenant", 0, EpochStart)}

NoAuth == [bearerToken |-> NoToken, urlToken |-> NoToken,
           allowCronToken |-> FALSE, reply |-> NoReply, check |-> "none",
           at |-> 0]

\* existed records whether the tenant had a readable config when the call
\* was made.
NoCall == [pc |-> "idle", tenantId |-> 0, status |-> 0, code |-> "",
           schema |-> FALSE, blob |-> FALSE, tokens |-> {}, masterKey |-> 0,
           existed |-> FALSE, again |-> FALSE]

EmptyLog == [started |-> 0, schemaInits |-> 0, blobWrites |-> 0]

\* No tenant has been onboarded and no request has been made.
NoTenants ==
  /\ epochMs = EpochStart
  /\ blobs = [t \in TenantIds |-> NoBlob]
  /\ onb = [c \in Callers |-> NoCall]
  /\ auth = NoAuth
  /\ tlog = EmptyLog

\* Date.now() advances.
ClockTick ==
  /\ epochMs < EpochStart + MaxSeconds * 1000
  /\ \E d \in ClockSteps : epochMs' = epochMs + d
  /\ UNCHANGED <<blobs, onb, auth, tlog>>
  /\ UNCHANGED messageVars
  /\ UNCHANGED serviceVars

\* A request to an endpoint: resolveTenant and its answer.
Resolve ==
  /\ \E bearerToken \in Tokens(epochMs), urlToken \in UrlTokens(epochMs),
        allowCronToken \in BOOLEAN :
       LET out == resolveTenant(bearerToken, urlToken, allowCronToken,
                                blobs, epochMs)
       IN /\ auth' = [bearerToken |-> bearerToken, urlToken |-> urlToken,
                      allowCronToken |-> allowCronToken,
                      reply |-> out.reply, check |-> out.check,
                      at |-> epochMs]
  /\ UNCHANGED <<epochMs, blobs, onb, tlog>>
  /\ UNCHANGED messageVars
  /\ UNCHANGED serviceVars

\* initializeTenant is called: sanitizeDbConfig, then the tenant id.
OnbStart(c) ==
  /\ onb[c].pc = "idle"
  /\ tlog.started < MaxOnboardings
  /\ \E t \in TenantIds, driverOk \in BOOLEAN :
       LET call == [NoCall EXCEPT !.tenantId = t,
                      !.existed = (getTenantConfig(blobs, t) = "config"),
                      !.again = /\ onb[c].tenantId = t
                                /\ onb[c].status = 500
                                /\ onb[c].schema]
       IN onb' = [onb EXCEPT ![c] =
                    IF driverOk
                      THEN [call EXCEPT !.pc = "check"]
                      ELSE [call EXCEPT !.status = 400,
                                        !.code = "INVALID_DRIVER"]]
  /\ tlog' = [tlog EXCEPT !.started = @ + 1]
  /\ UNCHANGED <<epochMs, blobs, auth>>
  /\ UNCHANGED messageVars
  /\ UNCHANGED serviceVars

\* Variant: an existing config does not stop the call.
OnbCheck_NoGuard(c) ==
  /\ onb[c].pc = "check"
  /\ LET existing == getTenantConfig(blobs, onb[c].tenantId)
     IN onb' = [onb EXCEPT ![c] =
          IF existing = "throws"
            THEN [@ EXCEPT !.pc = "idle", !.status = 500, !.code = "THROWN"]
          ELSE [@ EXCEPT !.pc = "schema"]]
  /\ UNCHANGED <<epochMs, blobs, auth, tlog>>
  /\ UNCHANGED messageVars
  /\ UNCHANGED serviceVars

\* existing = await tenantStore.getTenantConfig(tenantId)
OnbCheck(c) ==
  /\ onb[c].pc = "check"
  /\ LET existing == getTenantConfig(blobs, onb[c].tenantId)
     IN onb' = [onb EXCEPT ![c] =
          IF existing = "throws"
            THEN [@ EXCEPT !.pc = "idle", !.status = 500, !.code = "THROWN"]
          ELSE IF existing = "config"
            THEN [@ EXCEPT !.pc = "idle", !.status = 409,
                           !.code = "TENANT_ALREADY_INITIALIZED"]
          ELSE [@ EXCEPT !.pc = "schema"]]
  /\ UNCHANGED <<epochMs, blobs, auth, tlog>>
  /\ UNCHANGED messageVars
  /\ UNCHANGED serviceVars

\* adapter = await getOrCreateAdapter(dbConfig); await adapter.initSchema()
OnbInitSchema(c) ==
  /\ onb[c].pc = "schema"
  /\ \E throws \in BOOLEAN :
       IF throws
         THEN /\ onb' = [onb EXCEPT ![c] = [@ EXCEPT !.pc = "idle",
                           !.status = 500, !.code = "THROWN"]]
              /\ tlog' = tlog
         ELSE /\ onb' = [onb EXCEPT ![c] = [@ EXCEPT !.pc = "write",
                                                     !.schema = TRUE]]
              /\ tlog' = [tlog EXCEPT !.schemaInits = @ + 1]
  /\ UNCHANGED <<epochMs, blobs, auth>>
  /\ UNCHANGED messageVars
  /\ UNCHANGED serviceVars

\* masterKey = randomBytes(32): a key no earlier call has drawn.
randomBytes(log) == log.blobWrites + 1

\* Variant: the blob is stored although setTenantConfig throws.
OnbWrite_StoredThenThrows(c) ==
  /\ onb[c].pc = "write"
  /\ \E throws \in BOOLEAN :
       LET masterKey == randomBytes(tlog)
           t == onb[c].tenantId
       IN /\ blobs' = [blobs EXCEPT ![t] =
                         [masterKey |-> masterKey, kek |-> "kek"]]
          /\ onb' = [onb EXCEPT ![c] =
               IF throws
                 THEN [@ EXCEPT !.pc = "idle", !.status = 500,
                                !.code = "THROWN"]
                 ELSE [@ EXCEPT
                        !.pc = "idle", !.status = 201, !.blob = TRUE,
                        !.masterKey = masterKey,
                        !.tokens = {createTenantToken(t, "tenant", 0, epochMs),
                                    createTenantToken(t, "cron", 0, epochMs)}]]
          /\ tlog' = [tlog EXCEPT !.blobWrites = @ + 1]
  /\ UNCHANGED <<epochMs, auth>>
  /\ UNCHANGED messageVars
  /\ UNCHANGED serviceVars

\* await tenantStore.setTenantConfig({...}); the two tokens; the result.
OnbWrite(c) ==
  /\ onb[c].pc = "write"
  /\ \E throws \in BOOLEAN :
       IF throws
         THEN /\ onb' = [onb EXCEPT ![c] = [@ EXCEPT !.pc = "idle",
                           !.status = 500, !.code = "THROWN"]]
              /\ UNCHANGED <<blobs, tlog>>
         ELSE LET masterKey == randomBytes(tlog)
                  t == onb[c].tenantId
              IN /\ blobs' = [blobs EXCEPT ![t] =
                                [masterKey |-> masterKey, kek |-> "kek"]]
                 /\ onb' = [onb EXCEPT ![c] = [@ EXCEPT
                      !.pc = "idle", !.status = 201, !.blob = TRUE,
                      !.masterKey = masterKey,
                      !.tokens = {createTenantToken(t, "tenant", 0, epochMs),
                                  createTenantToken(t, "cron", 0, epochMs)}]]
                 /\ tlog' = [tlog EXCEPT !.blobWrites = @ + 1]
  /\ UNCHANGED <<epochMs, auth>>
  /\ UNCHANGED messageVars
  /\ UNCHANGED serviceVars

initializeTenant(c) ==
  \/ OnbStart(c)
  \/ OnbCheck(c)
  \/ OnbInitSchema(c)
  \/ OnbWrite(c)

\* The state after construction: an empty table, nothing in progress.
\* used is the part of the clock budget MaxTicks that is already spent.
Fresh(used) ==
  /\ now = 0
  /\ rows = [i \in {} |-> 0]
  /\ nextId = 1
  /\ run = [r \in Runners |-> IdleRun]
  /\ inst = IdleInst
  /\ ghost = [i \in Ids |-> NoHistory]
  /\ ticks = used
  /\ NoTenants
  /\ NoServices

Init == Fresh(0)

\* Time passes.
Tick ==
  /\ ticks < MaxTicks
  /\ \E d \in TickSteps : now' = now + d
  /\ ticks' = ticks + 1
  /\ UNCHANGED tenantVars
  /\ UNCHANGED serviceVars
  /\ UNCHANGED <<rows, nextId, run, inst, ghost>>

\* ------------------------------------------------------ schedule-message
\* POST schedule-message for a fixed message: firstSendTime is in the
\* future, the row is inserted pending with retry_count 0.  A uuid that is
\* already in the table is a unique violation and inserts nothing.
\* Variant: the table has no unique index on uuid.
createTask_NoIndex(tbl, id, uuid, payload, nextSendAt, t) ==
  [i \in DOMAIN tbl \cup {id} |->
     IF i = id THEN NewRow(uuid, payload, nextSendAt, t) ELSE tbl[i]]

createTask(tbl, id, uuid, payload, nextSendAt, t) ==
  IF \E i \in DOMAIN tbl : tbl[i].uuid = uuid
    THEN tbl
    ELSE [i \in DOMAIN tbl \cup {id} |->
            IF i = id THEN NewRow(uuid, payload, nextSendAt, t) ELSE tbl[i]]

\* const taskUuid = payload.uuid || randomUUID(): a fresh uuid per request.
randomUUID(id) == id

ScheduleMessage ==
  /\ nextId \in Ids
  /\ \E rec \in Recurrences, n \in UnitCounts :
       LET payload == [messageType |-> "fixed", recurrenceType |-> rec,
                       units |-> n]
       IN rows' = createTask(rows, nextId, randomUUID(nextId), payload,
                             now + ScheduleDelay, now)
  /\ nextId' = nextId + 1
  /\ UNCHANGED tenantVars
  /\ UNCHANGED serviceVars
  /\ UNCHANGED <<now, run, inst, ghost, ticks>>

\* ----------------------------------------------------- send-notifications
\* Variant: the task is given up one attempt later (retry_count > 3).
FailureUpdates_LateThreshold(task, t) ==
  IF task.retry_count > 3
    THEN [status |-> "failed"]
    ELSE [next_send_at |-> t + Ms((task.retry_count + 1) * 2 * 60 * 1000),
          retry_count |-> task.retry_count + 1]

\* Variant: the last attempt is counted too.
FailureUpdates_CountsLast(task, t) ==
  IF task.retry_count >= 3
    THEN [status |-> "failed", retry_count |-> task.retry_count + 1]
    ELSE [next_send_at |-> t + Ms((task.retry_count + 1) * 2 * 60 * 1000),
          retry_count |-> task.retry_count + 1]

\* Variant: the delay is counted from the scheduled time, not the failure.
FailureUpdates_FromSchedule(task, t) ==
  IF task.retry_count >= 3
    THEN [status |-> "failed"]
    ELSE [next_send_at |->
            task.next_send_at + Ms((task.retry_count + 1) * 2 * 60 * 1000),
          retry_count |-> task.retry_count + 1]

\* Variant: a retry also writes status pending.
FailureUpdates_Requeue(task, t) ==
  IF task.retry_count >= 3
    THEN [status |-> "failed"]
    ELSE [status |-> "pending",
          next_send_at |-> t + Ms((task.retry_count + 1) * 2 * 60 * 1000),
          retry_count |-> task.retry_count + 1]

\* handleDeliveryFailure: the fields written after a failed delivery.
FailureUpdates(task, t) ==
  IF task.retry_count >= 3
    THEN [status |-> "failed"]
    ELSE [next_send_at |-> t + Ms((task.retry_count + 1) * 2 * 60 * 1000),
          retry_count |-> task.retry_count + 1]

\* handleDeliveryFailure: the diagnostics entry pushed to failedTasks.
FailureEntry(task, t) ==
  IF task.retry_count >= 3
    THEN [taskId |-> task.id, retryCount |-> task.retry_count,
          status |-> "permanently_failed"]
    ELSE [taskId |-> task.id, retryCount |-> task.retry_count + 1,
          nextRetryAt |-> t + Ms((task.retry_count + 1) * 2 * 60 * 1000)]

\* Variant: the next occurrence is counted from the time of the run.
RecurrenceUpdates_FromNow(task) ==
  IF task.payload.recurrenceType = "daily"
    THEN [next_send_at |-> now + Ms(24 * 60 * 60 * 1000), retry_count |-> 0]
    ELSE [next_send_at |-> now + Ms(7 * 24 * 60 * 60 * 1000),
          retry_count |-> 0]

\* processTask: the fields written after a delivered recurring task.
RecurrenceUpdates(task) ==
  IF task.payload.recurrenceType = "daily"
    THEN [next_send_at |-> task.next_send_at + Ms(24 * 60 * 60 * 1000),
          retry_count |-> 0]
    ELSE [next_send_at |-> task.next_send_at + Ms(7 * 24 * 60 * 60 * 1000),
          retry_count |-> 0]

\* Variant: the fallback write leaves the task pending.
MarkSentUpdates_LeftPending(task) == [status |-> "pending", retry_count |-> 0]

\* handlePostSendPersistenceFailure: the fallback write.
MarkSentUpdates(task) == [status |-> "sent", retry_count |-> 0]

SetRun(r, rec) == run' = [run EXCEPT ![r] = rec]

SetGhost(id, rec) == ghost' = [ghost EXCEPT ![id] = rec]

\* POST: tasks = await ctx.db.getPendingTasks(50); results; taskQueue
Fetch(r) ==
  /\ run[r].pc = "idle"
  /\ \E s \in getPendingTasks(rows, PendingLimit, now) :
       SetRun(r, [pc |-> "pool",
                  queue |-> [i \in DOMAIN s |->
                               [task |-> TaskOf(rows, s[i]),
                                seen |-> [psf |-> ghost[s[i]].psf,
                                         outcome |-> ghost[s[i]].outcome]]],
                  processing |-> {},
                  results |-> [EmptyResults EXCEPT !.totalTasks = Len(s)]])
  /\ UNCHANGED tenantVars
  /\ UNCHANGED serviceVars
  /\ UNCHANGED <<now, rows, nextId, inst, ghost, ticks>>

\* Variant: the pool admits one task more (<= instead of <).
StartTask_OneMore(r) ==
  /\ run[r].pc = "pool"
  /\ Cardinality(run[r].processing) <= MAX_CONCURRENT
  /\ run[r].queue # <<>>
  /\ LET job == Head(run[r].queue)
     IN SetRun(r, [run[r] EXCEPT
          !.queue = Tail(@),
          !.processing = @ \cup {[task |-> job.task, seen |-> job.seen,
                                  pc |-> "send", unit |-> 1, calls |-> 0]}])
  /\ UNCHANGED tenantVars
  /\ UNCHANGED serviceVars
  /\ UNCHANGED <<now, rows, nextId, inst, ghost, ticks>>

\* while (processing.length < MAX_CONCURRENT && taskQueue.length > 0)
StartTask(r) ==
  /\ run[r].pc = "pool"
  /\ Cardinality(run[r].processing) < MAX_CONCURRENT
  /\ run[r].queue # <<>>
  /\ LET job == Head(run[r].queue)
     IN SetRun(r, [run[r] EXCEPT
          !.queue = Tail(@),
          !.processing = @ \cup {[task |-> job.task, seen |-> job.seen,
                                  pc |-> "send", unit |-> 1, calls |-> 0]}])
  /\ UNCHANGED tenantVars
  /\ UNCHANGED serviceVars
  /\ UNCHANGED <<now, rows, nextId, inst, ghost, ticks>>

Replace(set, old, new) == (set \ {old}) \cup {new}

\* processSingleMessage: one ctx.webpush.sendNotification call, or an error
\* raised before it (content resolution, transport).
SendUnit(r) ==
  /\ run[r].pc = "pool"
  /\ \E j \in run[r].processing : \E ok \in BOOLEAN :
       /\ j.pc = "send"
       /\ IF ok
            THEN IF j.unit < j.task.payload.units
                   THEN SetRun(r, [run[r] EXCEPT !.processing =
                          Replace(@, j, [j EXCEPT !.unit = @ + 1,
                                                  !.calls = @ + 1])])
                   ELSE SetRun(r, [run[r] EXCEPT !.processing =
                          Replace(@, j, [j EXCEPT !.pc = "success",
                                                  !.calls = @ + 1])])
            ELSE SetRun(r, [run[r] EXCEPT !.processing =
                   Replace(@, j, [j EXCEPT !.pc = "failure"])])
  /\ UNCHANGED tenantVars
  /\ UNCHANGED serviceVars
  /\ UNCHANGED <<now, rows, nextId, inst, ghost, ticks>>

\* Variant: a failed retry write is swallowed without a diagnostics entry.
HandleDeliveryFailure_Silent(r) ==
  /\ run[r].pc = "pool"
  /\ \E j \in run[r].processing : \E throws \in BOOLEAN :
       /\ j.pc = "failure"
       /\ rows' = IF throws THEN rows
                  ELSE updateTaskById(rows, j.task.id,
                                      FailureUpdates(j.task, now), now)
       /\ SetRun(r, [run[r] EXCEPT
            !.processing = @ \ {j},
            !.results.failedCount = @ + 1,
            !.results.failedTasks =
               IF throws THEN @ ELSE Append(@, FailureEntry(j.task, now))])
       /\ SetGhost(j.task.id, [ghost[j.task.id] EXCEPT
            !.fails = Min(@ + 1, MaxFails),
            !.fault = @ \/ throws,
            !.outcome = IF ~throws /\ j.task.retry_count >= 3
                          THEN Close(@, "failed") ELSE @])
  /\ UNCHANGED tenantVars
  /\ UNCHANGED serviceVars
  /\ UNCHANGED <<now, nextId, inst, ticks>>

\* handleDeliveryFailure(task, reason)
HandleDeliveryFailure(r) ==
  /\ run[r].pc = "pool"
  /\ \E j \in run[r].processing : \E throws \in BOOLEAN :
       /\ j.pc = "failure"
       /\ rows' = IF throws THEN rows
                  ELSE updateTaskById(rows, j.task.id,
                                      FailureUpdates(j.task, now), now)
       /\ SetRun(r, [run[r] EXCEPT
            !.processing = @ \ {j},
            !.results.failedCount = @ + 1,
            !.results.failedTasks = Append(@,
               IF throws
                 THEN [taskId |-> j.task.id, status |-> "retry_update_failed"]
                 ELSE FailureEntry(j.task, now))])
       /\ SetGhost(j.task.id, [ghost[j.task.id] EXCEPT
            !.fails = Min(@ + 1, MaxFails),
            !.fault = @ \/ throws,
            !.outcome = IF ~throws /\ j.task.retry_count >= 3
                          THEN Close(@, "failed") ELSE @])
  /\ UNCHANGED tenantVars
  /\ UNCHANGED serviceVars
  /\ UNCHANGED <<now, nextId, inst, ticks>>

\* processTask, after a successful send: delete the one-shot row or move
\* the recurring row to its next occurrence.
PersistSuccess(r) ==
  /\ run[r].pc = "pool"
  /\ \E j \in run[r].processing : \E throws \in BOOLEAN :
       /\ j.pc = "success"
       /\ IF throws
            THEN /\ rows' = rows
                 /\ SetRun(r, [run[r] EXCEPT !.processing =
                      Replace(@, j, [j EXCEPT !.pc = "postfail"])])
                 /\ SetGhost(j.task.id, [ghost[j.task.id] EXCEPT
                      !.fault = TRUE, !.psf = TRUE, !.fails = 0])
            ELSE IF j.task.payload.recurrenceType = "none"
              THEN /\ rows' = deleteTaskById(rows, j.task.id)
                   /\ SetRun(r, [run[r] EXCEPT
                        !.processing = @ \ {j},
                        !.results.deletedOnceOffTasks = @ + 1,
                        !.results.successCount = @ + 1])
                   /\ SetGhost(j.task.id, [ghost[j.task.id] EXCEPT
                        !.outcome = Close(@, "deleted")])
              ELSE /\ rows' = updateTaskById(rows, j.task.id,
                                             RecurrenceUpdates(j.task), now)
                   /\ SetRun(r, [run[r] EXCEPT
                        !.processing = @ \ {j},
                        !.results.updatedRecurringTasks = @ + 1,
                        !.results.successCount = @ + 1])
                   /\ SetGhost(j.task.id, [ghost[j.task.id] EXCEPT
                        !.fails = 0, !.psf = FALSE])
  /\ UNCHANGED tenantVars
  /\ UNCHANGED serviceVars
  /\ UNCHANGED <<now, nextId, inst, ticks>>

\* handlePostSendPersistenceFailure(task, reason)
\* Variant: a post-send persistence failure is listed but not counted.
HandlePostSendPersistenceFailure_Uncounted(r) ==
  /\ run[r].pc = "pool"
  /\ \E j \in run[r].processing : \E throws \in BOOLEAN :
       /\ j.pc = "postfail"
       /\ rows' = IF throws THEN rows
                  ELSE updateTaskById(rows, j.task.id,
                                      MarkSentUpdates(j.task), now)
       /\ SetRun(r, [run[r] EXCEPT
            !.processing = @ \ {j},
            !.results.failedTasks = Append(@,
               [taskId |-> j.task.id,
                status |-> IF throws THEN "post_send_cleanup_failed"
                           ELSE "post_send_cleanup_failed_marked_sent",
                messageDelivered |-> TRUE])])
       /\ SetGhost(j.task.id, [ghost[j.task.id] EXCEPT
            !.outcome = IF throws THEN @ ELSE Close(@, "sent")])
  /\ UNCHANGED tenantVars
  /\ UNCHANGED serviceVars
  /\ UNCHANGED <<now, nextId, inst, ticks>>

HandlePostSendPersistenceFailure(r) ==
  /\ run[r].pc = "pool"
  /\ \E j \in run[r].processing : \E throws \in BOOLEAN :
       /\ j.pc = "postfail"
       /\ rows' = IF throws THEN rows
                  ELSE updateTaskById(rows, j.task.id,
                                      MarkSentUpdates(j.task), now)
       /\ SetRun(r, [run[r] EXCEPT
            !.processing = @ \ {j},
            !.results.failedCount = @ + 1,
            !.results.failedTasks = Append(@,
               [taskId |-> j.task.id,
                status |-> IF throws THEN "post_send_cleanup_failed"
                           ELSE "post_send_cleanup_failed_marked_sent",
                messageDelivered |-> TRUE])])
       /\ SetGhost(j.task.id, [ghost[j.task.id] EXCEPT
            !.outcome = IF throws THEN @ ELSE Close(@, "sent")])
  /\ UNCHANGED tenantVars
  /\ UNCHANGED serviceVars
  /\ UNCHANGED <<now, nextId, inst, ticks>>

\* Variant: the loop runs only while (taskQueue.length > 0).
Finish_QueueOnly(r) ==
  /\ run[r].pc = "pool"
  /\ run[r].queue = <<>>
  /\ rows' = cleanupOldTasks(rows, RetentionDays, now)
  /\ SetRun(r, IdleRun)
  /\ UNCHANGED tenantVars
  /\ UNCHANGED serviceVars
  /\ UNCHANGED <<now, nextId, inst, ghost, ticks>>

\* The pool loop has ended: await ctx.db.cleanupOldTasks(7); return 200.
Finish(r) ==
  /\ run[r].pc = "pool"
  /\ run[r].queue = <<>>
  /\ run[r].processing = {}
  /\ rows' = cleanupOldTasks(rows, RetentionDays, now)
  /\ SetRun(r, IdleRun)
  /\ UNCHANGED tenantVars
  /\ UNCHANGED serviceVars
  /\ UNCHANGED <<now, nextId, inst, ghost, ticks>>

Dispatch(r) ==
  \/ Fetch(r)
  \/ StartTask(r)
  \/ SendUnit(r)
  \/ HandleDeliveryFailure(r)
  \/ PersistSuccess(r)
  \/ HandlePostSendPersistenceFailure(r)
  \/ Finish(r)

\* ------------------------------------------- update-message, cancel-message
UpdateRecurrences == {"keep", "daily"}
UpdateTimes == {"keep", "later"}

\* PUT update-message: getTaskByUuid finds the pending row, the payload is
\* merged and written with updateTaskByUuid; a row that is not pending is
\* answered 404 or 409 and nothing is written.
UpdateMessage ==
  /\ \E i \in DOMAIN rows, rec \in UpdateRecurrences, tm \in UpdateTimes :
       /\ i \in getTaskByUuid(rows, rows[i].uuid)
       /\ rec # "keep" \/ tm # "keep"
       /\ LET updatedData == IF rec = "keep" THEN rows[i].payload
                             ELSE [rows[i].payload EXCEPT !.recurrenceType = rec]
              extraFields == IF tm = "keep" THEN [x \in {} |-> 0]
                             ELSE [next_send_at |-> now + ScheduleDelay]
          IN rows' = updateTaskByUuid(rows, rows[i].uuid, updatedData,
                                      extraFields, now)
  /\ UNCHANGED tenantVars
  /\ UNCHANGED serviceVars
  /\ UNCHANGED <<now, nextId, run, inst, ghost, ticks>>

\* DELETE cancel-message: deleteTaskByUuid, 404 when no row was deleted.
CancelMessage ==
  /\ \E i \in DOMAIN rows : rows' = deleteTaskByUuid(rows, rows[i].uuid)
  /\ UNCHANGED tenantVars
  /\ UNCHANGED serviceVars
  /\ UNCHANGED <<now, nextId, run, inst, ghost, ticks>>

\* ------------------------------------------------------------ instant path
\* POST schedule-message with messageType instant: the row is inserted and
\* processMessagesByUuid(taskUuid, ctx, 2, userId) runs before the response.
ScheduleInstant ==
  /\ nextId \in Ids
  /\ inst.pc = "idle"
  /\ \E n \in UnitCounts :
       LET payload == [messageType |-> "instant", recurrenceType |-> "none",
                       units |-> n]
       IN rows' = createTask(rows, nextId, randomUUID(nextId), payload,
                             now + ScheduleDelay, now)
  /\ nextId' = nextId + 1
  /\ inst' = [IdleInst EXCEPT !.pc = "get", !.uuid = randomUUID(nextId)]
  /\ UNCHANGED tenantVars
  /\ UNCHANGED serviceVars
  /\ UNCHANGED <<now, run, ghost, ticks>>

\* The handler answers with the result code; the request is over.
Return(code) == [IdleInst EXCEPT !.code = code]

\* task = await ctx.db.getTaskByUuid(uuid, userId)
InstantGet ==
  /\ inst.pc = "get"
  /\ \E throws \in BOOLEAN :
       IF throws
         THEN IF inst.retryCount < InstantMaxRetries
                THEN inst' = [inst EXCEPT !.retryCount = @ + 1]
                ELSE inst' = Return("INTERNAL_ERROR")
         ELSE IF getTaskByUuid(rows, inst.uuid) = {}
                THEN inst' = Return("TASK_NOT_FOUND")
                ELSE \E i \in getTaskByUuid(rows, inst.uuid) :
                       inst' = [inst EXCEPT !.pc = "send", !.unit = 1,
                                            !.task = InstantTaskOf(rows, i),
                                            !.attempts = @ + 1]
  /\ UNCHANGED tenantVars
  /\ UNCHANGED serviceVars
  /\ UNCHANGED <<now, rows, nextId, run, ghost, ticks>>

\* result = await processSingleMessage(task, ctx, masterKey)
InstantSend ==
  /\ inst.pc = "send"
  /\ \E ok \in BOOLEAN :
       IF ok
         THEN IF inst.unit < inst.task.payload.units
                THEN inst' = [inst EXCEPT !.unit = @ + 1, !.sendCount = @ + 1]
                ELSE inst' = [inst EXCEPT !.pc = "delete",
                                          !.sendCount = @ + 1,
                                          !.delivered = @ + 1]
         ELSE IF inst.retryCount < InstantMaxRetries
                THEN inst' = [inst EXCEPT !.pc = "get", !.retryCount = @ + 1]
                ELSE inst' = [inst EXCEPT !.pc = "markFailed"]
  /\ UNCHANGED tenantVars
  /\ UNCHANGED serviceVars
  /\ UNCHANGED <<now, rows, nextId, run, ghost, ticks>>

\* processMessagesByUuid: the write after the last failed attempt.
InstantFailedUpdates(retryCount) ==
  [status |-> "failed", retry_count |-> retryCount]

\* await ctx.db.updateTaskById(task.id, { status: 'failed', retry_count })
InstantMarkFailed ==
  /\ inst.pc = "markFailed"
  /\ \E throws \in BOOLEAN :
       /\ rows' = IF throws THEN rows
                  ELSE updateTaskById(rows, inst.task.id,
                                      InstantFailedUpdates(inst.retryCount), now)
       /\ SetGhost(inst.task.id, [ghost[inst.task.id] EXCEPT
            !.fault = @ \/ throws,
            !.outcome = IF throws THEN @ ELSE Close(@, "failed")])
  /\ inst' = Return("PROCESSING_ERROR")
  /\ UNCHANGED tenantVars
  /\ UNCHANGED serviceVars
  /\ UNCHANGED <<now, nextId, run, ticks>>

\* await ctx.db.deleteTaskById(task.id)
InstantDelete ==
  /\ inst.pc = "delete"
  /\ \E throws \in BOOLEAN :
       IF throws
         THEN /\ rows' = rows
              /\ inst' = [inst EXCEPT !.pc = "markSent"]
              /\ SetGhost(inst.task.id, [ghost[inst.task.id] EXCEPT
                   !.fault = TRUE, !.psf = TRUE])
         ELSE /\ rows' = deleteTaskById(rows, inst.task.id)
              /\ inst' = Return("OK")
              /\ SetGhost(inst.task.id, [ghost[inst.task.id] EXCEPT
                   !.outcome = Close(@, "deleted")])
  /\ UNCHANGED tenantVars
  /\ UNCHANGED serviceVars
  /\ UNCHANGED <<now, nextId, run, ticks>>

\* Variant: a failed delete is handled like a failed send and retried.
InstantMarkSent_Retries ==
  /\ inst.pc = "markSent"
  /\ inst' = IF inst.retryCount < InstantMaxRetries
               THEN [inst EXCEPT !.pc = "get", !.retryCount = @ + 1]
               ELSE Return("PROCESSING_ERROR")
  /\ UNCHANGED tenantVars
  /\ UNCHANGED serviceVars
  /\ UNCHANGED <<now, rows, nextId, run, ghost, ticks>>

\* catch: await ctx.db.updateTaskById(task.id, { status: 'sent', retry_count: 0 })
InstantMarkSent ==
  /\ inst.pc = "markSent"
  /\ \E throws \in BOOLEAN :
       /\ rows' = IF throws THEN rows
                  ELSE updateTaskById(rows, inst.task.id,
                                      MarkSentUpdates(inst.task), now)
       /\ SetGhost(inst.task.id, [ghost[inst.task.id] EXCEPT
            !.outcome = IF throws THEN @ ELSE Close(@, "sent")])
  /\ inst' = Return("POST_SEND_CLEANUP_FAILED")
  /\ UNCHANGED tenantVars
  /\ UNCHANGED serviceVars
  /\ UNCHANGED <<now, nextId, run, ticks>>

processMessagesByUuid ==
  \/ InstantGet
  \/ InstantSend
  \/ InstantMarkFailed
  \/ InstantDelete
  \/ InstantMarkSent

\* ------------------------------------------- schedule-message, the handler
\* The uuids a client puts into payload.uuid; 0 stands for none given.
ClientUuids == {101, 102}

\* Variant: the handler does not look at the VAPID configuration.
VapidMissing_Unchecked(v) == FALSE

\* !ctx.vapid.email || !ctx.vapid.publicKey || !ctx.vapid.privateKey
VapidMissing(v) == ~v.email \/ ~v.publicKey \/ ~v.privateKey

Answer(status, code, messageType, uuid) ==
  [seq |-> reply.seq + 1, status |-> status, code |-> code,
   messageType |-> messageType, uuid |-> uuid]

\* POST schedule-message for a valid, decrypted payload of type fixed or
\* instant: the VAPID pre-flight check of an instant message, the insert
\* (which may hit the unique index or fail otherwise) and the answer.  An
\* instant message that was inserted is handed to processMessagesByUuid
\* and answered when that returns (status 0 until then).
PostScheduleMessage ==
  /\ reply.seq < MaxRequests
  /\ nextId <= MaxRows
  /\ inst.pc = "idle"
  /\ \E messageType \in {"fixed", "instant"}, given \in ClientUuids \cup {0},
        n \in UnitCounts, throws \in BOOLEAN :
       LET taskUuid == IF given # 0 THEN given ELSE randomUUID(nextId)
           payload == [messageType |-> messageType,
                       recurrenceType |-> "none", units |-> n]
           inserted == createTask(rows, nextId, taskUuid, payload,
                                  now + ScheduleDelay, now)
       IN IF messageType = "instant" /\ VapidMissing(vapid)
            THEN /\ reply' = Answer(500, "VAPID_CONFIG_ERROR", messageType,
                                    taskUuid)
                 /\ UNCHANGED <<rows, nextId, inst>>
          ELSE IF throws
            THEN /\ reply' = Answer(500, "THROWN", messageType, taskUuid)
                 /\ UNCHANGED <<rows, nextId, inst>>
          ELSE IF inserted = rows
            THEN /\ reply' = Answer(409, "TASK_UUID_CONFLICT", messageType,
                                    taskUuid)
                 /\ UNCHANGED <<rows, nextId, inst>>
          ELSE /\ rows' = inserted
               /\ nextId' = nextId + 1
               /\ IF messageType = "instant"
                    THEN /\ inst' = [IdleInst EXCEPT !.pc = "get",
                                                     !.uuid = taskUuid]
                         /\ reply' = Answer(0, "NONE", messageType, taskUuid)
                    ELSE /\ inst' = inst
                         /\ reply' = Answer(201, "CREATED", messageType,
                                            taskUuid)
  /\ UNCHANGED tenantVars
  /\ UNCHANGED <<now, run, ghost, ticks, vapid, psm, adp, content, outbox>>

\* The answer to an instant request once processMessagesByUuid has
\* returned: 200 on success, 500 MESSAGE_SEND_FAILED otherwise.
InstantResponse(code) ==
  IF code = "OK" THEN [status |-> 200, code |-> "OK"]
  ELSE [status |-> 500, code |-> "MESSAGE_SEND_FAILED"]

\* -------------------------------------- processSingleMessage, the unit loop
\* The text has been resolved and split into messages (here numbered
\* 1..n); the for loop starts with i = 0.
PsmStart(w) ==
  /\ psm[w].pc = "idle"
  /\ \E n \in 1..MaxUnits :
       psm' = [psm EXCEPT ![w] = [IdlePsm EXCEPT !.pc = "loop",
                                    !.messages = [k \in 1..n |-> k]]]
  /\ UNCHANGED tenantVars
  /\ UNCHANGED messageVars
  /\ UNCHANGED <<vapid, reply, adp, content, outbox>>

\* Variant: sendNotification is called without await and the loop goes on.
PsmSend_NoAwait(w) ==
  /\ psm[w].pc = "loop"
  /\ psm[w].i < Len(psm[w].messages)
  /\ psm' = [psm EXCEPT ![w] = [@ EXCEPT
               !.inflight = @ \cup {psm[w].messages[psm[w].i + 1]},
               !.i = @ + 1]]
  /\ UNCHANGED tenantVars
  /\ UNCHANGED messageVars
  /\ UNCHANGED <<vapid, reply, adp, content, outbox>>

\* i < messages.length: await ctx.webpush.sendNotification(messages[i])
PsmSend(w) ==
  /\ psm[w].pc = "loop"
  /\ psm[w].i < Len(psm[w].messages)
  /\ psm' = [psm EXCEPT ![w] = [@ EXCEPT
               !.pc = "awaitSend",
               !.inflight = @ \cup {psm[w].messages[psm[w].i + 1]}]]
  /\ UNCHANGED tenantVars
  /\ UNCHANGED messageVars
  /\ UNCHANGED <<vapid, reply, adp, content, outbox>>

\* The push settles: resolved, the loop pauses before the next unit or goes
\* on to its end; rejected, the catch returns { success: false }.
PsmSettle(w) ==
  /\ psm[w].pc = "awaitSend"
  /\ \E u \in psm[w].inflight, ok \in BOOLEAN :
       psm' = [psm EXCEPT ![w] =
         IF ok
           THEN [@ EXCEPT
                  !.inflight = @ \ {u},
                  !.pushed = Append(@, u),
                  !.pc = IF psm[w].i < Len(psm[w].messages) - 1
                           THEN "pause" ELSE "loop",
                  !.i = IF psm[w].i < Len(psm[w].messages) - 1
                          THEN @ ELSE @ + 1]
           ELSE [@ EXCEPT !.inflight = @ \ {u}, !.pc = "failed"]]
  /\ UNCHANGED tenantVars
  /\ UNCHANGED messageVars
  /\ UNCHANGED <<vapid, reply, adp, content, outbox>>

\* await new Promise(resolve => setTimeout(resolve, 1500)); i++
PsmPaced(w) ==
  /\ psm[w].pc = "pause"
  /\ psm' = [psm EXCEPT ![w] = [@ EXCEPT !.pc = "loop", !.i = @ + 1]]
  /\ UNCHANGED tenantVars
  /\ UNCHANGED messageVars
  /\ UNCHANGED <<vapid, reply, adp, content, outbox>>

\* The loop has ended: return { success: true, messagesSent }.
PsmReturn(w) ==
  /\ psm[w].pc = "loop"
  /\ psm[w].i = Len(psm[w].messages)
  /\ psm' = [psm EXCEPT ![w] = [@ EXCEPT !.pc = "returned"]]
  /\ UNCHANGED tenantVars
  /\ UNCHANGED messageVars
  /\ UNCHANGED <<vapid, reply, adp, content, outbox>>

processSingleMessage(w) ==
  \/ PsmStart(w)
  \/ PsmSend(w)
  \/ PsmSettle(w)
  \/ PsmPaced(w)
  \/ PsmReturn(w)

\* ------------------------------------------------------ getOrCreateAdapter
\* Caller c enters getOrCreateAdapter(dbConfig): adapterCache.has(cacheKey)
\* is evaluated; a hit returns adapterCache.get(cacheKey), a miss calls the
\* factory and waits for it.
AdapterEnter(c) ==
  /\ adp.calls[c].pc = "idle"
  /\ adp.started < MaxAdapterCalls
  /\ \E k \in Pairs :
       adp' = [adp EXCEPT
                 !.started = @ + 1,
                 !.calls[c] = IF adp.cache[k] # 0
                                THEN [pc |-> "returned", pair |-> k,
                                      got |-> adp.cache[k]]
                                ELSE [pc |-> "creating", pair |-> k, got |-> 0]]
  /\ UNCHANGED tenantVars
  /\ UNCHANGED messageVars
  /\ UNCHANGED <<vapid, reply, psm, content, outbox>>

\* The factory settles: resolved, adapterCache.set(cacheKey, adapter) and
\* return adapterCache.get(cacheKey); rejected, the call throws.
AdapterMade(c) ==
  /\ adp.calls[c].pc = "creating"
  /\ \E ok \in BOOLEAN :
       LET k == adp.calls[c].pair
           adapter == adp.handles + 1
       IN adp' = IF ok
                   THEN [adp EXCEPT
                           !.handles = adapter,
                           !.cache[k] = adapter,
                           !.created[k] = @ \cup {adapter},
                           !.calls[c] = [pc |-> "returned", pair |-> k,
                                         got |-> adapter]]
                   ELSE [adp EXCEPT !.calls[c].pc = "threw"]
  /\ UNCHANGED tenantVars
  /\ UNCHANGED messageVars
  /\ UNCHANGED <<vapid, reply, psm, content, outbox>>

\* The caller is done with the call and may call again.
AdapterLeave(c) ==
  /\ adp.calls[c].pc \in {"returned", "threw"}
  /\ adp' = [adp EXCEPT !.calls[c] = NoAdapterCall]
  /\ UNCHANGED tenantVars
  /\ UNCHANGED messageVars
  /\ UNCHANGED <<vapid, reply, psm, content, outbox>>

getOrCreateAdapter(c) ==
  \/ AdapterEnter(c)
  \/ AdapterMade(c)
  \/ AdapterLeave(c)

\* ----------------------------------- processSingleMessage, content and units
\* A text is a sequence of characters; the full-width characters are
\* written by their code points.
Chars == {"a", " ", ".", "!", "U+3002"}

\* The character class of the split: /([\u3002\uFF01\uFF1F!?]+)/
Terminators_WithPeriod == {"U+3002", "U+FF01", "U+FF1F", "!", "?", "."}

Terminators == {"U+3002", "U+FF01", "U+FF1F", "!", "?"}

Texts == UNION {[1..n -> Chars] : n \in 1..MaxText}

\* String.prototype.trim over the characters of the model.
RECURSIVE trimStart(_)
trimStart(t) ==
  IF t # <<>> /\ Head(t) = " " THEN trimStart(Tail(t)) ELSE t

RECURSIVE trimEnd(_)
trimEnd(t) ==
  IF t # <<>> /\ t[Len(t)] = " "
    THEN trimEnd(SubSeq(t, 1, Len(t) - 1)) ELSE t

trim(t) == trimEnd(trimStart(t))

\* messageContent.split(/([...]+)/): the parts between the terminator runs
\* at the odd places and the runs (the capture group) at the even places;
\* acc is the array built so far, its last part still growing.
RECURSIVE splitParts(_, _)
splitParts(t, acc) ==
  LET n == Len(acc)
      inRun == n % 2 = 0
  IN IF t = <<>>
       THEN IF inRun THEN Append(acc, <<>>) ELSE acc
       ELSE IF (Head(t) \in Terminators) = inRun
              THEN splitParts(Tail(t),
                              [acc EXCEPT ![n] = Append(@, Head(t))])
              ELSE splitParts(Tail(t), Append(acc, <<Head(t)>>))

split(t) == splitParts(t, << <<>> >>)

\* .reduce(...): a part at an even index of the array (an odd place here)
\* that is not blank is pushed trimmed, with the run after it; the
\* .filter(s => s.length > 0) after it.
RECURSIVE reduceParts(_, _, _)
reduceParts(arr, k, acc) ==
  IF k > Len(arr)
    THEN acc
    ELSE reduceParts(arr, k + 2,
           IF trim(arr[k]) # <<>>
             THEN Append(acc, trim(arr[k]) \o
                              (IF k + 1 <= Len(arr) THEN arr[k + 1] ELSE <<>>))
             ELSE acc)

sentencesOf(messageContent) ==
  SelectSeq(reduceParts(split(messageContent), 1, <<>>),
            LAMBDA x : Len(x) > 0)

\* const messages = sentences.length > 0 ? sentences : [messageContent];
messagesOf(messageContent) ==
  IF Len(sentencesOf(messageContent)) > 0
    THEN sentencesOf(messageContent)
    ELSE <<messageContent>>

\* The JSON body _callAI posts to the completion endpoint (temperature in
\* tenths).
completionBody(payload) ==
  [model |-> "primaryModel", messages |-> "completePrompt",
   max_tokens |-> 500, temperature |-> 8]

\* The content of the task is resolved: a fixed message passes its text
\* through; an AI-backed one posts the completion request and takes the
\* trimmed answer, a blank answer being an error in the later version of
\* _callAI and passed on in the earlier one.
ResolveContent ==
  /\ content.pc = "idle"
  /\ content.source # <<>>
  /\ IF content.messageType = "fixed"
       THEN content' = [content EXCEPT !.pc = "resolved",
                                       !.text = content.source]
       ELSE \E checked \in BOOLEAN :
              content' = [content EXCEPT
                !.body = completionBody(content),
                !.text = trim(content.source),
                !.pc = IF checked /\ trim(content.source) = <<>>
                         THEN "threw" ELSE "resolved"]
  /\ UNCHANGED tenantVars
  /\ UNCHANGED messageVars
  /\ UNCHANGED <<vapid, reply, psm, adp, outbox>>

\* The sentence splitting of the resolved text.
SplitContent ==
  /\ content.pc = "resolved"
  /\ content' = [content EXCEPT !.pc = "split",
                                  !.messages = messagesOf(content.text)]
  /\ UNCHANGED tenantVars
  /\ UNCHANGED messageVars
  /\ UNCHANGED <<vapid, reply, psm, adp, outbox>>

\* ------------------------------------------- service worker, request outbox
\* What fetch can come back with: a response of one of the status classes,
\* or a network error.
Responses == {"2xx", "3xx", "4xx", "5xx", "error"}

\* list.sort((a, b) => (a.createdAt || 0) - (b.createdAt || 0)) over
\* store.getAll(), which returns the records in key order; the sort is
\* stable.
RECURSIVE sortByCreatedAt(_, _)
sortByCreatedAt(store, ids) ==
  IF ids = {}
    THEN <<>>
    ELSE LET first == CHOOSE i \in ids : \A j \in ids :
                        \/ store[i].createdAt < store[j].createdAt
                        \/ (store[i].createdAt = store[j].createdAt /\ i <= j)
         IN <<[id |-> first, createdAt |-> store[first].createdAt]>>
            \o sortByCreatedAt(store, ids \ {first})

listQueuedRequests(store) == sortByCreatedAt(store, DOMAIN store)

removeQueuedRequest(store, id) == [i \in DOMAIN store \ {id} |-> store[i]]

\* message ENQUEUE_REQUEST, enqueueAndFlush: normalizeQueuedRequest stamps
\* createdAt = Date.now(), addQueuedRequest stores the request under the
\* next key, registerFlushSync, and the flush of this call begins.
EnqueueAndFlush(f) ==
  /\ outbox.flush[f].pc = "idle"
  /\ outbox.nextKey <= MaxQueued
  /\ outbox.started < MaxFlushes
  /\ \E passed \in {0, 1} :
       LET t == outbox.clock + passed
           id == outbox.nextKey
       IN outbox' = [outbox EXCEPT
            !.clock = t,
            !.nextKey = id + 1,
            !.store = [i \in DOMAIN @ \cup {id} |->
                         IF i = id THEN [createdAt |-> t] ELSE @[i]],
            !.fetches = [i \in DOMAIN @ \cup {id} |->
                           IF i = id THEN 0 ELSE @[i]],
            !.started = @ + 1,
            !.flush[f] = [NoFlush EXCEPT !.pc = "list"]]
  /\ UNCHANGED tenantVars
  /\ UNCHANGED messageVars
  /\ UNCHANGED <<vapid, reply, psm, adp, content>>

\* message FLUSH_QUEUE or the sync event: flushQueuedRequests(sw) begins.
FlushStart(f) ==
  /\ outbox.flush[f].pc = "idle"
  /\ outbox.started < MaxFlushes
  /\ outbox' = [outbox EXCEPT !.started = @ + 1,
                               !.flush[f] = [NoFlush EXCEPT !.pc = "list"]]
  /\ UNCHANGED tenantVars
  /\ UNCHANGED messageVars
  /\ UNCHANGED <<vapid, reply, psm, adp, content>>

\* const queuedRequests = await listQueuedRequests()
FlushList(f) ==
  /\ outbox.flush[f].pc = "list"
  /\ outbox' = [outbox EXCEPT
       !.flush[f] = [@ EXCEPT !.pc = "loop", !.k = 1,
                              !.list = listQueuedRequests(outbox.store)]]
  /\ UNCHANGED tenantVars
  /\ UNCHANGED messageVars
  /\ UNCHANGED <<vapid, reply, psm, adp, content>>

\* trySendQueuedRequest: fetch(queuedRequest.url, ...) is called for the
\* next request of the list; past the end of the list the flush returns.
FlushSend(f) ==
  /\ outbox.flush[f].pc = "loop"
  /\ LET fl == outbox.flush[f]
     IN IF fl.k <= Len(fl.list)
          THEN outbox' = [outbox EXCEPT
                 !.flush[f].pc = "await",
                 !.fetches[fl.list[fl.k].id] = @ + 1]
          ELSE outbox' = [outbox EXCEPT !.flush[f].pc = "idle"]
  /\ UNCHANGED tenantVars
  /\ UNCHANGED messageVars
  /\ UNCHANGED <<vapid, reply, psm, adp, content>>

\* Variant: the request is removed whatever the server answered.
FlushAnswer_AlwaysRemoves(f) ==
  /\ outbox.flush[f].pc = "await"
  /\ \E response \in Responses :
       LET fl == outbox.flush[f]
           id == fl.list[fl.k].id
       IN outbox' = [outbox EXCEPT
            !.store = removeQueuedRequest(@, id),
            !.settled = IF response \in {"2xx", "4xx"}
                          THEN @ \cup {id} ELSE @,
            !.flush[f] = [@ EXCEPT !.pc = "loop", !.k = @ + 1,
                                   !.answer = response]]
  /\ UNCHANGED tenantVars
  /\ UNCHANGED messageVars
  /\ UNCHANGED <<vapid, reply, psm, adp, content>>

\* The fetch settles. canDelete (response.ok or a 4xx status): await
\* removeQueuedRequest(id) and on to the next request; otherwise
\* registerFlushSync and return.
FlushAnswer(f) ==
  /\ outbox.flush[f].pc = "await"
  /\ \E response \in Responses :
       LET fl == outbox.flush[f]
           id == fl.list[fl.k].id
       IN IF response \in {"2xx", "4xx"}
            THEN outbox' = [outbox EXCEPT
                   !.store = removeQueuedRequest(@, id),
                   !.settled = @ \cup {id},
                   !.flush[f] = [@ EXCEPT !.pc = "loop", !.k = @ + 1,
                                          !.answer = response]]
            ELSE outbox' = [outbox EXCEPT
                   !.flush[f] = [@ EXCEPT !.pc = "idle",
                                          !.answer = response]]
  /\ UNCHANGED tenantVars
  /\ UNCHANGED messageVars
  /\ UNCHANGED <<vapid, reply, psm, adp, content>>

flushQueuedRequests(f) ==
  \/ FlushList(f)
  \/ FlushSend(f)
  \/ FlushAnswer(f)

\* ---------------------------------------------------------- specifications
\* One dispatcher, run after run, with the requests on scheduled messages.
Next ==
  \/ Tick
  \/ ScheduleMessage
  \/ UpdateMessage
  \/ CancelMessage
  \/ Dispatch(1)

Spec == Init /\ [][Next]_vars

\* A later state of the same program: row 1 was scheduled at time 0, has
\* failed delivery in r dispatch runs, 6 minutes apart, and is due again.
Retried(used) ==
  /\ \E r \in 0..3, rec \in Recurrences, n \in UnitCounts :
       /\ now = (r + 1) * 6 * Minute
       /\ rows = [i \in {1} |->
            [uuid |-> randomUUID(1), status |-> "pending", retry_count |-> r,
             next_send_at |-> IF r = 0 THEN ScheduleDelay
                              ELSE r * 6 * Minute + Ms(r * 2 * 60 * 1000),
             updated_at |-> r * 6 * Minute,
             payload |-> [messageType |-> "fixed", recurrenceType |-> rec,
                          units |-> n]]]
       /\ ghost = [i \in Ids |-> [NoHistory EXCEPT !.fails = r]]
  /\ nextId = 2
  /\ run = [r \in Runners |-> IdleRun]
  /\ inst = IdleInst
  /\ ticks = used
  /\ NoTenants
  /\ NoServices

\* The instant path beside one dispatcher and the update and cancel requests.
InstantTicks == 1

InitInstant ==
  \/ Fresh(MaxTicks - InstantTicks)
  \/ Retried(MaxTicks - InstantTicks)

NextInstant ==
  \/ Tick
  \/ ScheduleInstant
  \/ processMessagesByUuid
  \/ UpdateMessage
  \/ CancelMessage
  \/ Dispatch(1)

SpecInstant == InitInstant /\ [][NextInstant]_vars

\* Two overlapping dispatch runs.
ConcurrentTicks == 1

InitConcurrent == Retried(MaxTicks - ConcurrentTicks)

NextConcurrent ==
  \/ Tick
  \/ \E r \in Runners : Dispatch(r)

SpecConcurrent == InitConcurrent /\ [][NextConcurrent]_vars

\* One dispatch run over a table of up to PoolSize due one-shot tasks whose
\* deliveries and storage writes all succeed: the worker pool under load.
PoolSize == 9

InitPool ==
  /\ \E n \in 0..PoolSize :
       rows = [i \in 1..n |->
                 NewRow(randomUUID(i),
                        [messageType |-> "fixed", recurrenceType |-> "none",
                         units |-> 1],
                        i, 0)]
  /\ now = PoolSize + Minute
  /\ nextId = PoolSize + 1
  /\ run = [r \in Runners |-> IdleRun]
  /\ inst = IdleInst
  /\ ghost = [i \in 1..PoolSize |-> NoHistory]
  /\ ticks = MaxTicks
  /\ NoTenants
  /\ NoServices

\* processSingleMessage returns success.
DeliverUnit(r) ==
  /\ SendUnit(r)
  /\ \A j \in run'[r].processing : j.pc # "failure"

\* The delete after the delivery returns.
PersistDelivered(r) ==
  /\ PersistSuccess(r)
  /\ \A j \in run'[r].processing : j.pc # "postfail"

NextPool ==
  \/ Fetch(1)
  \/ StartTask(1)
  \/ DeliverUnit(1)
  \/ PersistDelivered(1)
  \/ Finish(1)

SpecPool == InitPool /\ [][NextPool]_vars

\* The event loop keeps running the handler: every await returns.
SpecPoolLive == SpecPool /\ WF_vars(NextPool)

\* The fetch of a run over tables of up to FetchRows rows of mixed status
\* and send time (rows 1 and 2 share theirs), more of them due than one run
\* takes; the run is followed as far as the start of its first tasks.
FetchRows == 80

FetchStatus(i) ==
  IF i % 7 = 3 THEN "sent" ELSE IF i % 11 = 5 THEN "failed" ELSE "pending"

FetchTime(i) == IF i = 2 THEN 37 ELSE (i * 37) % 83

InitFetch ==
  /\ \E n \in 0..FetchRows :
       rows = [i \in 1..n |->
                 [NewRow(randomUUID(i),
                         [messageType |-> "fixed", recurrenceType |-> "none",
                          units |-> 1],
                         FetchTime(i), 0)
                    EXCEPT !.status = FetchStatus(i)]]
  /\ now \in {Minute \div 2, Minute + Minute \div 4}
  /\ nextId = FetchRows + 1
  /\ run = [r \in Runners |-> IdleRun]
  /\ inst = IdleInst
  /\ ghost = [i \in 1..FetchRows |-> NoHistory]
  /\ ticks = MaxTicks - 1
  /\ NoTenants
  /\ NoServices

NextFetch ==
  \/ Tick
  \/ Fetch(1)
  \/ StartTask(1)

SpecFetch == InitFetch /\ [][NextFetch]_vars

\* Schedule requests, fixed and instant, with and without a client uuid, on
\* servers with any VAPID configuration; each instant message runs through
\* processMessagesByUuid.  No dispatch run takes place.
InitSchedule ==
  /\ now = 0
  /\ rows = [i \in {} |-> 0]
  /\ nextId = 1
  /\ run = [r \in Runners |-> IdleRun]
  /\ inst = IdleInst
  /\ ghost = [i \in 1..MaxRows |-> NoHistory]
  /\ ticks = MaxTicks
  /\ NoTenants
  /\ vapid \in [email : BOOLEAN, publicKey : BOOLEAN, privateKey : BOOLEAN]
  /\ reply = NoAnswer
  /\ psm = [w \in Workers |-> IdlePsm]
  /\ adp = EmptyCache
  /\ content = NoContent
  /\ outbox = EmptyOutbox

NextSchedule ==
  \/ PostScheduleMessage
  \/ processMessagesByUuid

SpecSchedule == InitSchedule /\ [][NextSchedule]_vars

\* A dispatch run over a table that holds one due task and JanitorRows - 1
\* rows outside the batch, of any status and age around the retention
\* window; pending rows outside the batch are not yet due.
JanitorRows == 3
JanitorNow == 10 * Day
JanitorAges == {RetentionDays * Day + Day, RetentionDays * Day + 1,
                RetentionDays * Day, Day}

InitJanitor ==
  /\ now = JanitorNow
  /\ \E st \in [2..JanitorRows -> {"pending", "sent", "failed"}],
        age \in [2..JanitorRows -> JanitorAges], n \in UnitCounts :
       rows = [i \in 1..JanitorRows |->
                 IF i = 1
                   THEN NewRow(randomUUID(1),
                               [messageType |-> "fixed",
                                recurrenceType |-> "none", units |-> n],
                               JanitorNow - Minute, JanitorNow - Day)
                   ELSE [NewRow(randomUUID(i),
                                [messageType |-> "fixed",
                                 recurrenceType |-> "none", units |-> 1],
                                JanitorNow + Day, JanitorNow - age[i])
                           EXCEPT !.status = st[i]]]
  /\ nextId = JanitorRows + 1
  /\ run = [r \in Runners |-> IdleRun]
  /\ inst = IdleInst
  /\ ghost = [i \in 1..JanitorRows |-> NoHistory]
  /\ ticks = MaxTicks
  /\ NoTenants
  /\ NoServices

NextJanitor == Dispatch(1)

SpecJanitor == InitJanitor /\ [][NextJanitor]_vars

\* The message table plays no part in the tenant specifications.
NoMessages ==
  /\ now = 0
  /\ rows = [i \in {} |-> 0]
  /\ nextId = 1
  /\ run = [r \in Runners |-> IdleRun]
  /\ inst = IdleInst
  /\ ghost = [i \in Ids |-> NoHistory]
  /\ ticks = 0

\* Two tasks of the pool in processSingleMessage at the same time, each
\* with up to MaxUnits delivery units.
InitUnits ==
  /\ NoMessages
  /\ NoTenants
  /\ NoServices

NextUnits == \E w \in Workers : processSingleMessage(w)

SpecUnits == InitUnits /\ [][NextUnits]_vars

\* One task's content: a fixed or an AI-backed message, with or without
\* maxTokens, whose text is any text of up to MaxText characters.
MaxTokensValues == {0, 128, 256}

InitContent ==
  /\ NoMessages
  /\ NoTenants
  /\ vapid = VapidConfigured
  /\ reply = NoAnswer
  /\ psm = [w \in Workers |-> IdlePsm]
  /\ adp = EmptyCache
  /\ outbox = EmptyOutbox
  /\ \E mt \in {"fixed", "prompted"}, k \in MaxTokensValues, t \in Texts :
       content = [NoContent EXCEPT !.messageType = mt, !.maxTokens = k,
                                   !.source = t]

NextContent ==
  \/ ResolveContent
  \/ SplitContent

SpecContent == InitContent /\ [][NextContent]_vars

\* One recurring task, first due at FirstDue, and the dispatch runs over it
\* as time passes; no request changes the task.
FirstDue == ScheduleDelay

InitRecurring ==
  /\ now = 0
  /\ \E rec \in {"daily", "weekly"}, n \in UnitCounts :
       rows = [i \in {1} |->
                 NewRow(randomUUID(1),
                        [messageType |-> "fixed", recurrenceType |-> rec,
                         units |-> n],
                        FirstDue, 0)]
  /\ nextId = 2
  /\ run = [r \in Runners |-> IdleRun]
  /\ inst = IdleInst
  /\ ghost = [i \in Ids |-> NoHistory]
  /\ ticks = 0
  /\ NoTenants
  /\ NoServices

NextRecurring ==
  \/ Tick
  \/ Dispatch(1)

SpecRecurring == InitRecurring /\ [][NextRecurring]_vars

\* One dispatch run after another over BatchRows due tasks, one-shot or
\* recurring.
InitBatch ==
  /\ now = 6 * Minute
  /\ \E rec \in [1..BatchRows -> {"none", "daily"}] :
       rows = [i \in 1..BatchRows |->
                 NewRow(randomUUID(i),
                        [messageType |-> "fixed", recurrenceType |-> rec[i],
                         units |-> 1],
                        ScheduleDelay, 0)]
  /\ nextId = BatchRows + 1
  /\ run = [r \in Runners |-> IdleRun]
  /\ inst = IdleInst
  /\ ghost = [i \in 1..BatchRows |-> NoHistory]
  /\ ticks = MaxTicks
  /\ NoTenants
  /\ NoServices

NextBatch == Dispatch(1)

SpecBatch == InitBatch /\ [][NextBatch]_vars

\* The service worker's outbox: pages enqueue requests, and flushes run
\* for the enqueue, the sync event and the FLUSH_QUEUE message, overlapping
\* or not.
InitOutbox ==
  /\ NoMessages
  /\ NoTenants
  /\ NoServices

NextOutbox ==
  \E f \in Flushers :
    \/ EnqueueAndFlush(f)
    \/ FlushStart(f)
    \/ flushQueuedRequests(f)

SpecOutbox == InitOutbox /\ [][NextOutbox]_vars

\* Requests of several callers resolving storage handles, overlapping or not.
InitAdapters ==
  /\ NoMessages
  /\ NoTenants
  /\ NoServices

NextAdapters == \E c \in Workers : getOrCreateAdapter(c)

SpecAdapters == InitAdapters /\ [][NextAdapters]_vars

\* Requests to the endpoints while the clock runs: tenant 1 is onboarded,
\* tenant 2 has no blob or a blob written under an earlier kek.
InitAuth ==
  /\ epochMs = EpochStart
  /\ \E other \in {NoBlob, [masterKey |-> MaxOnboardings + 1,
                          kek |-> "earlier kek"]} :
       blobs = [t \in TenantIds |->
                  IF t = 1 THEN [masterKey |-> 1, kek |-> "kek"] ELSE other]
  /\ onb = [c \in Callers |-> NoCall]
  /\ auth = NoAuth
  /\ tlog = EmptyLog
  /\ NoMessages
  /\ NoServices

NextAuth ==
  \/ ClockTick
  \/ Resolve

SpecAuth == InitAuth /\ [][NextAuth]_vars

\* Onboarding calls, overlapping or one after the other.
InitOnboard ==
  /\ epochMs = EpochStart
  /\ \E other \in {NoBlob, [masterKey |-> MaxOnboardings + 1,
                              kek |-> "earlier kek"]} :
       blobs = [t \in TenantIds |-> IF t = 1 THEN NoBlob ELSE other]
  /\ onb = [c \in Callers |-> NoCall]
  /\ auth = NoAuth
  /\ tlog = EmptyLog
  /\ NoMessages
  /\ NoServices

NextOnboard == \E c \in Callers : initializeTenant(c)

SpecOnboard == InitOnboard /\ [][NextOnboard]_vars

\* ------------------------------------------------------------- properties
Last(seq) == seq[Len(seq)]

\* The tasks a run has fetched and not finished: queued or in flight.
Jobs(r) == {run[r].queue[k] : k \in DOMAIN run[r].queue}
             \cup {[task |-> j.task, seen |-> j.seen] : j \in run[r].processing}

\* The status of a failedTasks entry; the entry of a scheduled retry has none.
EntryStatus(e) == IF "status" \in DOMAIN e THEN e.status ELSE "retry_scheduled"

\* The step in which run r finishes job j by pushing a failedTasks entry of
\* one of the given statuses.
Ends(r, j, from, statuses) ==
  /\ j.pc = from
  /\ j \notin run'[r].processing
  /\ run'[r].results.failedTasks # run[r].results.failedTasks
  /\ EntryStatus(Last(run'[r].results.failedTasks)) \in statuses

\* C1: when the delete or update that follows a successful delivery throws
\* and the dispatcher's fallback write is made, that write is {status: sent,
\* retry_count: 0}: no retry is scheduled (next_send_at is left alone), the
\* row is not pending afterwards, and the run called the transport once per
\* delivery unit of the task (once for a one-unit message).
C1_PostSendFallbackMarksSent ==
  [][\A r \in Runners : \A j \in run[r].processing :
       Ends(r, j, "postfail", {"post_send_cleanup_failed_marked_sent"})
       => /\ j.calls = j.task.payload.units
          /\ j.task.payload.units = 1 => j.calls = 1
          /\ IF j.task.id \in DOMAIN rows
               THEN /\ j.task.id \in DOMAIN rows'
                    /\ rows'[j.task.id].status = "sent"
                    /\ rows'[j.task.id].retry_count = 0
                    /\ rows'[j.task.id].next_send_at
                         = rows[j.task.id].next_send_at
               ELSE j.task.id \notin DOMAIN rows']_vars

C1_Witness ==
  \E r \in Runners : \E k \in DOMAIN run[r].results.failedTasks :
    LET e == run[r].results.failedTasks[k]
    IN /\ EntryStatus(e) = "post_send_cleanup_failed_marked_sent"
       /\ e.taskId \in DOMAIN rows
       /\ rows[e.taskId].status = "sent"
       /\ rows[e.taskId].retry_count = 0

\* C2: a task occurrence that was delivered is not delivered again by a
\* dispatch run that starts later, whichever storage writes threw after the
\* delivery: no run sends a unit of a task it fetched after that occurrence
\* had been delivered and its success-path write had thrown.
C2_NoRedeliveryAfterPersistenceFailure ==
  \A r \in Runners : \A j \in run[r].processing :
    j.seen.psf => j.calls = 0

\* C3: a row's status changes only from pending (to sent or failed); a row
\* that is sent or failed keeps its status and never becomes pending again.
C3_StatusOnlyLeavesPending ==
  [][\A i \in DOMAIN rows :
       (i \in DOMAIN rows' /\ rows'[i].status # rows[i].status)
       => /\ rows[i].status = "pending"
          /\ rows'[i].status \in {"sent", "failed"}]_vars

\* C4: after 4 consecutive failed dispatch attempts of a task (the writes
\* recording them made) its row is failed with retry_count 3, and no later
\* dispatch run fetches a task that has ended failed.
C4_FourFailuresEndFailed ==
  /\ \A i \in DOMAIN rows :
       (ghost[i].fails >= 4 /\ ~ghost[i].fault)
       => rows[i].status = "failed" /\ rows[i].retry_count = 3
  /\ \A r \in Runners : \A j \in Jobs(r) : j.seen.outcome # "failed"

C4_Witness ==
  \E i \in DOMAIN rows :
    /\ ghost[i].fails = 4
    /\ ~ghost[i].fault
    /\ rows[i].status = "failed"
    /\ rows[i].retry_count = 3

\* C5: every stored retry_count is between 0 and 3.
C5_RetryCountInRange ==
  \A i \in DOMAIN rows : rows[i].retry_count >= 0 /\ rows[i].retry_count <= 3

C5_Witness ==
  \E i \in DOMAIN rows :
    rows[i].retry_count = 3 /\ rows[i].status = "failed"

\* C6: when the delivery of a pending row with retry_count r fails and the
\* failure is recorded, then for r < 3 the row stays pending with
\* retry_count r + 1 and next_send_at = now + (r + 1) * 2 minutes (delays of
\* 2, 4 and 6 minutes), and for r >= 3 the row becomes failed.
C6_LinearBackoff ==
  [][\A r \in Runners : \A j \in run[r].processing :
       (/\ Ends(r, j, "failure", {"retry_scheduled", "permanently_failed"})
        /\ j.task.id \in DOMAIN rows
        /\ rows[j.task.id].status = "pending"
        /\ rows[j.task.id].retry_count = j.task.retry_count)
       => /\ j.task.id \in DOMAIN rows'
          /\ LET rc == rows[j.task.id].retry_count
                 new == rows'[j.task.id]
             IN IF rc < 3
                  THEN /\ new.status = "pending"
                       /\ new.retry_count = rc + 1
                       /\ new.next_send_at = now + (rc + 1) * 2 * Minute
                       /\ new.next_send_at - now \in {2 * Minute, 4 * Minute,
                                                      6 * Minute}
                  ELSE new.status = "failed"]_vars

C6_Witness ==
  \E i \in DOMAIN rows :
    /\ rows[i].status = "pending"
    /\ rows[i].retry_count = 3
    /\ rows[i].next_send_at = rows[i].updated_at + 6 * Minute
    /\ ghost[i].fails = 3

\* C7: a one-shot task whose delivery succeeds after k < 3 failed attempts
\* has its row deleted by the success path, and no later dispatch run
\* fetches it again.
C7_RetriedThenDeliveredOnce ==
  /\ \A i \in Ids : ghost[i].outcome = "deleted" => i \notin DOMAIN rows
  /\ \A r \in Runners : \A j \in Jobs(r) : j.seen.outcome # "deleted"

C7_Witness ==
  \E i \in Ids :
    /\ ghost[i].outcome = "deleted"
    /\ ghost[i].fails \in {1, 2}
    /\ ~ghost[i].fault
    /\ i \notin DOMAIN rows

\* C8: when a daily (weekly) task is delivered and its pending row is as it
\* was fetched, with next_send_at = T, the success path leaves the row
\* pending with next_send_at = T + 24 h (T + 7 d) and retry_count 0, at
\* whatever time the run executes.
C8_RecurrenceFromPriorTime ==
  [][\A r \in Runners : \A j \in run[r].processing :
       (/\ j.pc = "success"
        /\ j \notin run'[r].processing
        /\ run'[r].results.updatedRecurringTasks
             = run[r].results.updatedRecurringTasks + 1
        /\ j.task.payload.recurrenceType \in {"daily", "weekly"}
        /\ j.task.id \in DOMAIN rows
        /\ rows[j.task.id].status = "pending"
        /\ rows[j.task.id].next_send_at = j.task.next_send_at
        /\ rows[j.task.id].payload = j.task.payload)
       => /\ j.task.id \in DOMAIN rows'
          /\ LET T == rows[j.task.id].next_send_at
                 new == rows'[j.task.id]
             IN /\ new.status = "pending"
                /\ new.retry_count = 0
                /\ new.next_send_at =
                     IF j.task.payload.recurrenceType = "daily"
                       THEN T + 24 * 60 * Minute
                       ELSE T + 7 * 24 * 60 * Minute]_vars

C8_Witness ==
  \E i \in DOMAIN rows :
    /\ rows[i].payload.recurrenceType = "daily"
    /\ rows[i].status = "pending"
    /\ rows[i].retry_count = 0
    /\ rows[i].next_send_at = ScheduleDelay + 24 * 60 * Minute
    /\ rows[i].updated_at >= 12 * Minute

\* C9: on the instant path, when deleteTaskById throws after the message was
\* sent, the call ends there: the message was delivered once (with no
\* earlier retry the transport was called once per unit), the only write is
\* the update {status: sent, retry_count: 0}, and the call returns
\* POST_SEND_CLEANUP_FAILED.
C9_InstantCleanupFailure ==
  [][/\ inst'.delivered <= 1
     /\ (inst.pc = "markSent" /\ inst' # inst)
        => /\ inst'.pc = "idle"
           /\ inst'.code = "POST_SEND_CLEANUP_FAILED"
           /\ inst.delivered = 1
           /\ inst.retryCount = 0 => inst.sendCount = inst.task.payload.units
           /\ \/ rows' = rows
              \/ /\ inst.task.id \in DOMAIN rows
                 /\ DOMAIN rows' = DOMAIN rows
                 /\ rows'[inst.task.id] =
                      [rows[inst.task.id] EXCEPT !.status = "sent",
                                                 !.retry_count = 0,
                                                 !.updated_at = now]]_vars

C9_Witness ==
  /\ inst.code = "POST_SEND_CLEANUP_FAILED"
  /\ \E i \in DOMAIN rows :
       /\ rows[i].payload.messageType = "instant"
       /\ rows[i].status = "sent"
       /\ rows[i].retry_count = 0

C11_PoolBounded ==
  \A r \in Runners : Cardinality(run[r].processing) <= 8

C11_Witness ==
  \E r \in Runners :
    /\ Cardinality(run[r].processing) = 8
    /\ run[r].queue # <<>>

C13_FetchDuePendingInOrder ==
  [][\A r \in Runners :
       /\ (run[r].pc = "idle" /\ run'[r].pc = "pool")
          => LET q == run'[r].queue
                 taken == {q[k].task.id : k \in DOMAIN q}
             IN /\ Len(q) <= 50
                /\ run'[r].results.totalTasks = Len(q)
                /\ Cardinality(taken) = Len(q)
                /\ \A k \in DOMAIN q :
                     /\ q[k].task.id \in DOMAIN rows
                     /\ rows[q[k].task.id].status = "pending"
                     /\ rows[q[k].task.id].next_send_at <= now
                     /\ q[k].task.next_send_at = rows[q[k].task.id].next_send_at
                /\ \A k, l \in DOMAIN q :
                     k < l => q[k].task.next_send_at <= q[l].task.next_send_at
                /\ \A d \in DueIds(rows, now) \ taken : \A k \in DOMAIN q :
                     q[k].task.next_send_at <= rows[d].next_send_at
       /\ \A j \in run'[r].processing \ run[r].processing :
            /\ run[r].queue # <<>>
            /\ j.task = Head(run[r].queue).task]_vars

C13_Witness ==
  /\ run[1].pc = "pool"
  /\ run[1].results.totalTasks = 50
  /\ Cardinality(DueIds(rows, now)) > 50
  /\ \E i \in DOMAIN rows : rows[i].status # "pending"
  /\ \E i \in DOMAIN rows : rows[i].status = "pending" /\ rows[i].next_send_at > now
  /\ run[1].processing # {}

\* The step in which run r finishes handleDeliveryFailure for job j.
FailureHandled(r, j) ==
  /\ j.pc = "failure"
  /\ j \notin run'[r].processing

\* The run's diagnostics gained one entry, for job j's task.
EntryPushed(r, j) ==
  /\ Len(run'[r].results.failedTasks) = Len(run[r].results.failedTasks) + 1
  /\ Last(run'[r].results.failedTasks).taskId = j.task.id
  /\ run'[r].results.failedCount = run[r].results.failedCount + 1

Presented ==
  IF auth.bearerToken # NoToken THEN auth.bearerToken
  ELSE IF auth.allowCronToken THEN auth.urlToken
  ELSE NoToken

Answered == auth.reply # NoReply

Rejected401 ==
  /\ auth.reply.kind = "error"
  /\ auth.reply.status = 401
  /\ auth.reply.code = "INVALID_TENANT_AUTH"

\* C15: a tenant-typed token presented where cron tokens are allowed (the
\* dispatch trigger) and a cron-typed token presented to a tenant endpoint
\* are both answered 401 INVALID_TENANT_AUTH.
C15_TokenTypeSeparation ==
  (/\ Answered
   /\ Presented.shape = "jwt"
   /\ \/ auth.allowCronToken /\ Presented.typ = "tenant"
      \/ ~auth.allowCronToken /\ Presented.typ = "cron")
    => Rejected401

\* C15 witness: a signed, unexpired tenant token of an onboarded tenant is
\* turned away at the dispatch trigger for its type alone.
C15_Witness ==
  /\ Answered
  /\ auth.allowCronToken
  /\ Presented.typ = "tenant"
  /\ Presented.sig = "signed"
  /\ getTenantConfig(blobs, Presented.tid) = "config"
  /\ auth.check = "type"
  /\ Rejected401

\* The clock reading ms lies strictly before the start of second exp (an
\* expiry beyond the clock's range is not multiplied out).
StrictlyBefore(ms, exp) ==
  \/ exp > nowEpochSeconds(EpochStart) + MaxSeconds
  \/ ms < exp * 1000

\* C16: a signed token with expiry exp passes the expiry test at every clock
\* reading strictly before exp and is rejected at every reading at or after
\* exp, whatever was verified before.
C16_ExpiryBoundary ==
  (Answered /\ Presented.shape = "jwt" /\ Presented.sig = "signed") =>
    /\ StrictlyBefore(auth.at, Presented.exp) =>
         /\ auth.check \in {"none", "type", "tenant", "undecryptable"}
         /\ (Presented.typ = (IF auth.allowCronToken THEN "cron" ELSE "tenant")
             /\ getTenantConfig(blobs, Presented.tid) = "config")
              => auth.reply.kind = "context"
    /\ ~StrictlyBefore(auth.at, Presented.exp) =>
         /\ auth.check = "expired"
         /\ Rejected401

\* C16 witness: a token of the right type for an onboarded tenant, issued
\* earlier, is rejected at the very millisecond its expiry second begins.
C16_Witness ==
  /\ Answered
  /\ Presented.sig = "signed"
  /\ Presented.typ = "tenant"
  /\ ~auth.allowCronToken
  /\ Presented.iat < Presented.exp
  /\ Presented.exp <= nowEpochSeconds(EpochStart) + MaxSeconds
  /\ auth.at = Presented.exp * 1000
  /\ auth.check = "expired"
  /\ Rejected401

\* C17: every rejected request gets one and the same answer, so that two
\* rejections, whichever tests they failed, cannot be told apart by the
\* caller (status, code and message are all the caller sees).
C17_OneOpaqueOutcome ==
  [][(Rejected401 /\ Rejected401') => auth'.reply = auth.reply]_vars

\* C18: a request whose token verifies but whose tenant has no blob, or a
\* blob that cannot be decrypted, is answered 401 INVALID_TENANT_AUTH.
C18_UnreadableBlobRejected ==
  (Answered /\ auth.check \in {"tenant", "undecryptable"}) => Rejected401

C20_MasterKeyImmutable ==
  [][\A t \in TenantIds :
       (blobs[t] # NoBlob /\ Readable(blobs[t]))
         => blobs'[t].masterKey = blobs[t].masterKey]_vars

\* C21: an instant schedule request to a server whose VAPID credentials are
\* not all configured is answered 500 VAPID_CONFIG_ERROR and leaves the
\* table as it was: no row has been created for it.
C21_InstantPreflight ==
  [][(reply'.seq = reply.seq + 1 /\ reply'.messageType = "instant"
      /\ vapid # VapidConfigured)
       => /\ reply'.status = 500
          /\ reply'.code = "VAPID_CONFIG_ERROR"
          /\ rows' = rows
          /\ inst' = inst]_vars

\* C21 witness: the request was refused for the missing private key alone,
\* with a fresh uuid, and no row carries that uuid.
C21_Witness ==
  /\ vapid = [VapidConfigured EXCEPT !.privateKey = FALSE]
  /\ reply.messageType = "instant"
  /\ reply.code = "VAPID_CONFIG_ERROR"
  /\ reply.uuid \notin ClientUuids
  /\ \A i \in DOMAIN rows : rows[i].uuid # reply.uuid

\* The instant call is running.
InstantRunning == inst.pc # "idle"

\* The instant call leaves every row of another uuid alone and works on a
\* row of its own uuid.
OnlyNamedTask ==
  InstantRunning =>
    /\ \A i \in DOMAIN rows :
         rows[i].uuid # inst.uuid => (i \in DOMAIN rows' /\ rows'[i] = rows[i])
    /\ (inst'.pc \in {"send", "delete", "markFailed", "markSent"})
         => (inst'.task.id \in DOMAIN rows
             /\ rows[inst'.task.id].uuid = inst.uuid)

C23_UuidConflict ==
  [][/\ \A i, k \in DOMAIN rows' : rows'[i].uuid = rows'[k].uuid => i = k
     /\ (reply'.seq = reply.seq + 1
         /\ \E i \in DOMAIN rows : rows[i].uuid = reply'.uuid)
          => /\ rows' = rows
             /\ nextId' = nextId
             /\ reply'.code \notin {"VAPID_CONFIG_ERROR", "THROWN"}
                  => /\ reply'.status = 409
                     /\ reply'.code = "TASK_UUID_CONFLICT"]_vars

\* C23 witness: a request with a client uuid already in the table has been
\* answered 409 and exactly one row carries that uuid.
C23_Witness ==
  /\ reply.status = 409 /\ reply.code = "TASK_UUID_CONFLICT"
  /\ reply.uuid \in ClientUuids
  /\ Cardinality({i \in DOMAIN rows : rows[i].uuid = reply.uuid}) = 1

\* C24: an update or cancel request leaves every row that is sent or failed
\* in place and unchanged.
C24_TerminalRowsUntouchedByRequests ==
  [][(UpdateMessage \/ CancelMessage) =>
       \A i \in DOMAIN rows :
         rows[i].status \in {"sent", "failed"}
           => (i \in DOMAIN rows' /\ rows'[i] = rows[i])]_vars

\* C25: within one task the delivery units are sent one after another in
\* text order: at most one unit of the task is in flight; the unit in flight
\* is the successor of the last completed one; the completed sends are
\* units 1, 2, ... in that order.
C25_UnitsStrictlySequential ==
  \A w \in Workers :
    /\ Cardinality(psm[w].inflight) <= 1
    /\ \A u \in psm[w].inflight : Len(psm[w].pushed) = u - 1
    /\ \A k \in DOMAIN psm[w].pushed : psm[w].pushed[k] = psm[w].messages[k]
    /\ Len(psm[w].pushed) <= Len(psm[w].messages)

\* A task with three units has completed its first two sends and has the
\* third in flight, while another task has a unit in flight as well.
C25_Witness ==
  \E w, x \in Workers :
    /\ w # x
    /\ Len(psm[w].messages) = 3
    /\ psm[w].pushed = <<1, 2>>
    /\ psm[w].inflight = {3}
    /\ psm[x].inflight # {}

\* C26: the janitor pass of a dispatch run starts only after every task of
\* the batch has completed (nothing queued, nothing in processing, every
\* task counted as success or failure); it deletes only rows whose status
\* is sent or failed and whose updated_at is older than the retention
\* window, leaves every other row as it was, and never deletes a pending row.
C26_JanitorAfterBatchOnlyOldTerminal ==
  [][\A r \in Runners :
       (run[r].pc = "pool" /\ run'[r].pc = "idle") =>
         /\ run[r].queue = <<>>
         /\ run[r].processing = {}
         /\ run[r].results.successCount + run[r].results.failedCount
              = run[r].results.totalTasks
         /\ DOMAIN rows' \subseteq DOMAIN rows
         /\ \A i \in DOMAIN rows' : rows'[i] = rows[i]
         /\ \A i \in DOMAIN rows \ DOMAIN rows' :
              /\ rows[i].status \in {"sent", "failed"}
              /\ rows[i].status # "pending"
              /\ rows[i].updated_at < now - RetentionDays * Day]_vars

\* The run has ended; row 2, which was never part of a batch, is gone, and
\* row 3 is still there, pending and older than the retention window.
C26_Witness ==
  /\ run[1].pc = "idle"
  /\ 2 \notin DOMAIN rows
  /\ 3 \in DOMAIN rows
  /\ rows[3].status = "pending"
  /\ rows[3].updated_at < now - RetentionDays * Day

\* C27: over any sequence of getOrCreateAdapter calls, overlapping ones
\* included, at most one adapter is created per {driver, connectionString}
\* pair, and every call that returns gets that adapter.
C27_OneHandlePerPair ==
  /\ \A k \in Pairs : Cardinality(adp.created[k]) <= 1
  /\ \A c \in Workers :
       adp.calls[c].pc = "returned" =>
         adp.created[adp.calls[c].pair] = {adp.calls[c].got}

\* C28: the completion request carries max_tokens only when the payload
\* provides maxTokens, and then with exactly that value; without maxTokens
\* the body has no max_tokens field.
C28_MaxTokensOnlyWhenProvided ==
  (content.messageType = "prompted" /\ content.pc \in {"resolved", "split"}) =>
    IF content.maxTokens # 0
      THEN /\ "max_tokens" \in DOMAIN content.body
           /\ content.body.max_tokens = content.maxTokens
      ELSE "max_tokens" \notin DOMAIN content.body

\* The characters of t that are neither blank nor in T, in order.
Words(t, T) == SelectSeq(t, LAMBDA ch : ch \notin T \cup {" "})

RECURSIVE Concat(_)
Concat(m) == IF m = <<>> THEN <<>> ELSE Head(m) \o Concat(Tail(m))

\* The units of the resolved text are its sentences, split at the runs of
\* the characters of T: a unit starts with text, holds no blank at either
\* end and no character of T before its final run; every unit but the last
\* ends with its run; the text of all sentences is delivered, in order. A
\* text without any stretch of non-blank text is one unit, the whole text,
\* and so is a text without any character of T.
SplitOnRunsOf(T) ==
  content.pc = "split" =>
    LET t == content.text
        m == content.messages
    IN /\ (\A k \in DOMAIN t : t[k] \notin T) => Len(m) = 1
       /\ IF Words(t, T) = <<>>
            THEN m = <<t>>
            ELSE /\ \A u \in DOMAIN m :
                      /\ m[u] # <<>>
                      /\ m[u][1] \notin T \cup {" "}
                      /\ m[u][Len(m[u])] # " "
                      /\ \A j \in 1..(Len(m[u]) - 1) :
                           m[u][j] \in T => m[u][j + 1] \in T
                 /\ \A u \in 1..(Len(m) - 1) : m[u][Len(m[u])] \in T
                 /\ Words(Concat(m), T) = Words(t, T)

\* C29: the resolved text is split into delivery units on runs of
\* sentence-terminal punctuation, '.', '!', '?' and their full-width
\* equivalents, each run staying attached to the sentence before it; a
\* text without any terminator is exactly one unit.
C29_SplitOnTerminatorRuns ==
  SplitOnRunsOf({".", "!", "?", "U+3002", "U+FF01", "U+FF1F"})

\* C29, amended: the runs are runs of '!', '?' and the full-width full stop,
\* exclamation mark and question mark; the ASCII '.' is text of its sentence.
C29_SplitOnTerminatorRunsNoPeriod ==
  SplitOnRunsOf({"!", "?", "U+3002", "U+FF01", "U+FF1F"})

\* A text with an ASCII '.' in it has been split into two units.
C29_Witness ==
  /\ content.pc = "split"
  /\ Len(content.messages) = 2
  /\ \E k \in DOMAIN content.text : content.text[k] = "."

\* C30: an instant task is delivered at most once: while the instant path
\* is processing the task, no dispatch run delivers a unit of the same task.
C30_InstantDeliveredOnce ==
  \A r \in Runners : \A j \in run[r].processing :
    ~ /\ inst.pc \notin {"idle", "get"}
      /\ inst.task # NoTask
      /\ inst.task.payload.messageType = "instant"
      /\ inst.sendCount >= 1
      /\ j.task.id = inst.task.id
      /\ j.calls >= 1

\* C31: once an instant schedule request has returned a send failure
\* (PROCESSING_ERROR after the last attempt, INTERNAL_ERROR after repeated
\* errors fetching the task), no dispatch run delivers a unit of that
\* message afterwards.
C31_FailedInstantNeverDelivered ==
  [][(inst.pc = "idle" /\ inst.code \in {"PROCESSING_ERROR", "INTERNAL_ERROR"}) =>
       \A r \in Runners : \A j2 \in run'[r].processing :
         (j2.task.payload.messageType = "instant" /\ j2.calls >= 1) =>
           \E j \in run[r].processing :
             j.task = j2.task /\ j.calls = j2.calls]_vars

\* C32: across the dispatch runs a task is attempted at most 4 times before
\* it stops being pending, also when the write recording a failed attempt
\* throws: no run takes a task into processing after 4 failed attempts of it.
C32_AtMostFourAttempts ==
  \A r \in Runners : \A j \in run[r].processing :
    ghost[j.task.id].fails < 4

\* C33: each delivery unit of a task occurrence reaches the transport at
\* most once, also across retries: the instant path never makes more
\* successful sends for its task than the task has units.
C33_UnitsSentOnce ==
  inst.task # NoTask => inst.sendCount <= inst.task.payload.units

\* C34: a daily task first due at T0 stays on its schedule grid: every
\* next_send_at stored by the write after a successful delivery is
\* T0 + n * 24 h for some n >= 1, also when the delivery succeeded on a
\* retry after backoff requeues.
C34_DailyStaysOnGrid ==
  [][\A r \in Runners :
       run'[r].results.updatedRecurringTasks > run[r].results.updatedRecurringTasks =>
         \A i \in DOMAIN rows' :
           rows'[i].payload.recurrenceType = "daily" =>
             /\ rows'[i].next_send_at > FirstDue
             /\ (rows'[i].next_send_at - FirstDue) % Day = 0]_vars

\* C35: after a cancel request has removed a task, no dispatch run sends a
\* unit of it, also when the run had fetched the task before the cancel;
\* and no dispatcher write brings the removed row back.
C35_CancelledNeverDelivered ==
  [][/\ \A r \in Runners : \A j2 \in run'[r].processing :
          (j2.task.id \notin DOMAIN rows /\ j2.calls >= 1) =>
            \E j \in run[r].processing :
              j.task = j2.task /\ j.calls = j2.calls
     /\ DOMAIN rows' \subseteq DOMAIN rows \cup {nextId}]_vars

\* C36: an acknowledged update of a pending task is not lost: when the
\* stored next_send_at of a task differs from the one a dispatch run
\* fetched (an update came in between), no step replaces it by a value
\* computed from the fetched one (fetched + 24 h, fetched + 7 days).
C36_UpdateNotLost ==
  [][\A r \in Runners : \A j \in run[r].processing :
       (/\ j.task.id \in DOMAIN rows
        /\ j.task.id \in DOMAIN rows'
        /\ rows[j.task.id].next_send_at # j.task.next_send_at
        /\ rows'[j.task.id].next_send_at # rows[j.task.id].next_send_at)
       => rows'[j.task.id].next_send_at \notin
            {j.task.next_send_at + Day, j.task.next_send_at + 7 * Day}]_vars

\* C37: an onboarding that fails after the existence check (initSchema or
\* the blob write throws) stores no tenant configuration and returns no
\* tokens, so a later onboarding with the same tenantId can still succeed.
C37_FailedOnboardingStoresNothing ==
  [][\A c \in Callers :
       (onb[c].pc \in {"schema", "write"} /\ onb'[c].status = 500) =>
         /\ blobs' = blobs
         /\ onb'[c].tokens = {}
         /\ ~onb'[c].blob]_vars

\* A caller whose onboarding of a tenant failed at the blob write has
\* onboarded the same tenantId again, with success.
C37_Witness ==
  \E c \in Callers :
    /\ onb[c].again
    /\ onb[c].status = 201
    /\ onb[c].tokens # {}
    /\ blobs[onb[c].tenantId] # NoBlob

\* C38: when a dispatch run returns, every fetched task is counted exactly
\* once: successCount + failedCount = totalTasks, deletedOnceOffTasks +
\* updatedRecurringTasks = successCount, and the failure list has exactly
\* one entry per failed task.
C38_EveryTaskCountedOnce ==
  [][\A r \in Runners :
       (run[r].pc = "pool" /\ run'[r].pc = "idle") =>
         LET res == run[r].results
         IN /\ res.successCount + res.failedCount = res.totalTasks
            /\ res.deletedOnceOffTasks + res.updatedRecurringTasks
                 = res.successCount
            /\ Len(res.failedTasks) = res.failedCount
            /\ \A a, b \in DOMAIN res.failedTasks :
                 a # b => res.failedTasks[a].taskId # res.failedTasks[b].taskId]_vars

\* A run over two tasks is about to return with one success and one failure.
C38_Witness ==
  /\ run[1].pc = "pool"
  /\ run[1].queue = <<>>
  /\ run[1].processing = {}
  /\ run[1].results.totalTasks = 2
  /\ run[1].results.successCount = 1
  /\ run[1].results.failedCount = 1
  /\ Len(run[1].results.failedTasks) = 1

\* C39: a flush sends the queued requests in creation order; a request
\* leaves the outbox only in the step in which the server has answered it
\* with 2xx or 4xx; on a network error or a 5xx answer the flush stops at
\* that request, which stays queued with all later ones: nothing is lost.
C39_OutboxFlushInOrderNothingLost ==
  [][/\ \A id \in DOMAIN outbox.store \ DOMAIN outbox'.store :
          \E f \in Flushers :
            /\ outbox.flush[f].pc = "await"
            /\ outbox.flush[f].list[outbox.flush[f].k].id = id
            /\ outbox'.flush[f].answer \in {"2xx", "4xx"}
     /\ \A f \in Flushers :
          LET fl == outbox.flush[f]
              fl2 == outbox'.flush[f]
          IN /\ (fl.pc = "await" /\ fl2.pc # "await"
                 /\ fl2.answer \in {"5xx", "error"}) =>
                  /\ fl2.pc = "idle"
                  /\ outbox'.store = outbox.store
                  /\ outbox'.fetches = outbox.fetches
             /\ (fl.pc = "loop" /\ fl2.pc = "await") =>
                  /\ fl2.k = fl.k
                  /\ \A a \in 1..(fl.k - 1) :
                       \/ fl.list[a].createdAt < fl.list[fl.k].createdAt
                       \/ /\ fl.list[a].createdAt = fl.list[fl.k].createdAt
                          /\ fl.list[a].id < fl.list[fl.k].id
                  /\ \A i \in DOMAIN outbox.store :
                       (i < fl.list[fl.k].id /\ i \notin outbox.settled)
                         => \E a \in 1..(fl.k - 1) : fl.list[a].id = i
             /\ (fl.pc = "await" /\ fl2.pc = "loop") => fl2.k = fl.k + 1]_vars

\* A flush has stopped at the first of two queued requests on a 5xx
\* answer: both are still queued and the second has not been sent.
C39_Witness ==
  \E f \in Flushers :
    /\ outbox.flush[f].pc = "idle"
    /\ outbox.flush[f].answer = "5xx"
    /\ Len(outbox.flush[f].list) = 2
    /\ DOMAIN outbox.store = {1, 2}
    /\ outbox.fetches[1] = 1
    /\ outbox.fetches[2] = 0

\* C40: when outbox flushes overlap, each queued request is sent to the
\* server at most once: no flush sends a request that another flush has in
\* flight or that the server has already answered with 2xx or 4xx.
C40_OverlappingFlushesSendOnce ==
  [][\A f \in Flushers :
       (outbox.flush[f].pc = "loop" /\ outbox'.flush[f].pc = "await") =>
         LET id == outbox.flush[f].list[outbox.flush[f].k].id
         IN /\ id \notin outbox.settled
            /\ \A g \in Flushers \ {f} :
                 ~ /\ outbox.flush[g].pc = "await"
                   /\ outbox.flush[g].list[outbox.flush[g].k].id = id]_vars

====
